---------------------------- MODULE Spec2Model ----------------------------
(***************************************************************************)
(* A model of the two ball games of games-collection: BasketballGame       *)
(* (src/src/games/Basketball/game.ts with its helpers) and FootballGame    *)
(* (src/src/games/Football/helpers.ts).                                    *)
(*                                                                         *)
(* Numbers.  The code computes in IEEE doubles; the model computes in      *)
(* fixed point, every product followed by a division that truncates        *)
(* toward zero:                                                            *)
(*   field positions and radii   1 = 0.0001 field units        (U)         *)
(*   velocities                  1 = 0.001 field units / second (V)        *)
(*   angles, angular velocities  1 = 0.001 rad, 0.001 rad / second         *)
(*   pixels                      1 = 0.1 CSS pixel             (PX)        *)
(*   pixel velocities            1 = 0.1 CSS pixel / second                *)
(*   unit normals, cos, sin      1 = 0.001                     (N)         *)
(*   damping, ratios, origins    1 = 0.001                     (K)         *)
(*   times                       1 = 1 millisecond                         *)
(***************************************************************************)
EXTENDS Integers, Sequences, FiniteSets, TLC

VARIABLES
    game,     \* the game instance: every field of `this`
    env,      \* the browser: clock, frame interval, canvas CSS size, frame queue,
              \* listeners, image load, and whether the component holds the instance
    obs       \* what the last step did (observation only, never read by the code)

vars == <<game, env, obs>>

----------------------------------------------------------------------------
(* Units *)

U == 10^4
V == 10^3
PX == 5 + 5
N == 10^3
K == 10^3

----------------------------------------------------------------------------
(* Arithmetic of the fixed-point model *)

Abs(a) == IF a < 0 THEN -a ELSE a

Max(a, b) == IF a >= b THEN a ELSE b

Min(a, b) == IF a <= b THEN a ELSE b

\* a / b truncated toward zero (b > 0)
Div(a, b) == IF a >= 0 THEN a \div b ELSE -((-a) \div b)

\* a * p / q, truncated toward zero
Scale(a, p, q) == Div(a * p, q)

RECURSIVE SqrtIter(_, _, _)
SqrtIter(n, lo, hi) ==
    IF lo >= hi THEN lo
    ELSE LET mid == (lo + hi + 1) \div 2
         IN  IF mid * mid <= n THEN SqrtIter(n, mid, hi)
             ELSE SqrtIter(n, lo, mid - 1)

\* Math.sqrt, rounded down
Sqrt(n) == SqrtIter(n, 0, 46340)

\* the value used for `a || 1e-6`: a itself unless it is zero. A division by
\* 1e-6 only ever divides zero in the code paths modelled (0 / 1e-6 = 0), so
\* the fallback denominator is any positive number.
OrEps(a) == IF a = 0 THEN 1 ELSE a

----------------------------------------------------------------------------
(* Configuration of the two games *)

BasketballBall ==
    [ radius |-> 350, minThrowSpeed |-> 100, throwPower |-> 5,
      spinFriction |-> 995 ]

BasketballBasket ==
    [ relX |-> 50, relY |-> 780, relW |-> 150, scale |-> 1500,
      rectConstraints |->
        << [ coords  |-> [xStart |-> 10, xEnd |-> 400, yStart |-> 12, yEnd |-> 390],
             damping |-> [left |-> 900, right |-> 100, top |-> 900, bottom |-> 900] ],
           [ coords  |-> [xStart |-> 400, xEnd |-> 460, yStart |-> 310, yEnd |-> 340],
             damping |-> [left |-> 0, right |-> 0, top |-> 0, bottom |-> 0] ],
           [ coords  |-> [xStart |-> 860, xEnd |-> 910, yStart |-> 310, yEnd |-> 340],
             damping |-> [left |-> 0, right |-> 900, top |-> 0, bottom |-> 900] ] >> ]

BasketballField ==
    [ groundY |-> 8000, originX |-> 200, originY |-> 500, groundDamping |-> 900 ]

BasketballPhysics ==
    [ gravity |-> 4900, bounceDamping |-> 800, wallDamping |-> 700 ]

FootballBall ==
    [ radius |-> 300, minThrowSpeed |-> 100, throwPower |-> 5,
      spinFriction |-> 995 ]

FootballGoal ==
    [ relX |-> 175, relY |-> 550, relW |-> 50, relH |-> 220, scale |-> 1000 ]

FootballField ==
    [ groundY |-> 7000, originX |-> 250, originY |-> 500, groundDamping |-> 700 ]

FootballPhysics ==
    [ gravity |-> 3920, bounceDamping |-> 700, wallDamping |-> 700 ]

FootballConstraints ==
    [ net    |-> [ netLineTopRatio |-> -1000, netLineBottomRatio |-> -2000,
                   dampingLeft |-> 500, dampingRight |-> 30 ],
      topBar |-> [ barThicknessRatio |-> 60, minBarThickness |-> 8 * PX,
                   damping |-> 600 ] ]

FootballFriction == 950

Kinds == {"basketball", "football"}

BallCfg(kind) == IF kind = "basketball" THEN BasketballBall ELSE FootballBall

FieldCfg(kind) == IF kind = "basketball" THEN BasketballField ELSE FootballField

PhysicsCfg(kind) == IF kind = "basketball" THEN BasketballPhysics ELSE FootballPhysics

\* the natural sizes of the loaded images (assets, not in the sources): the
\* field picture and the basket picture
FieldImage == [naturalWidth |-> 1250, naturalHeight |-> 1000]

BasketImage == [naturalWidth |-> 300, naturalHeight |-> 600]

\* the CSS sizes the canvas can have, in CSS pixels
CanvasSizes ==
    << [clientWidth |-> 1000, clientHeight |-> 800],
       [clientWidth |-> 600, clientHeight |-> 800] >>

----------------------------------------------------------------------------
(* helpers.ts of the basketball game *)

clamp(value, min, max) == Max(min, Min(max, value))

\* scale = cover ? max(rectW/imgW, rectH/imgH) : min(...); the two quotients
\* are compared by cross-multiplication and imgW * scale, imgH * scale are
\* computed with that quotient
calcImageRect(imgW, imgH, rectW, rectH, mode, originX, originY) ==
    LET byWidth == IF mode = "cover"
                   THEN rectW * imgH >= rectH * imgW
                   ELSE rectW * imgH <= rectH * imgW
        drawW   == IF byWidth THEN rectW ELSE Scale(imgW, rectH, imgH)
        drawH   == IF byWidth THEN Scale(imgH, rectW, imgW) ELSE rectH
    IN  [ drawW   |-> drawW,
          drawH   |-> drawH,
          offsetX |-> Scale(rectW - drawW, originX, K),
          offsetY |-> Scale(rectH - drawH, originY, K),
          scale   |-> IF byWidth THEN Scale(rectW, K, imgW * PX)
                      ELSE Scale(rectH, K, imgH * PX) ]

drawImageContained(img, containerW, containerH, mode, scale, anchorX, anchorY, originX, originY) ==
    LET r == calcImageRect(img.naturalWidth, img.naturalHeight, containerW,
                           containerH, mode, originX, originY)
        finalW == Scale(r.drawW, scale, K)
        finalH == Scale(r.drawH, scale, K)
        anchorOffsetX == Scale(r.drawW - finalW, anchorX, K)
        anchorOffsetY == Scale(r.drawH - finalH, anchorY, K)
    IN  [ drawW   |-> finalW,
          drawH   |-> finalH,
          offsetX |-> r.offsetX + anchorOffsetX,
          offsetY |-> r.offsetY + anchorOffsetY,
          scale   |-> Scale(r.scale, scale, K) ]

\* aspect is the quotient aspectNum / aspectDen
getImageDrawRect(containerRect, relX, relY, relW, scale, aspectNum, aspectDen, anchorX, anchorY) ==
    LET w == Scale(Scale(containerRect.drawW, relW, K), scale, K)
        h == Scale(w, aspectNum, aspectDen)
    IN  [ x |-> containerRect.offsetX + Scale(containerRect.drawW, relX, K)
                  - Scale(w, anchorX, K),
          y |-> containerRect.offsetY + Scale(containerRect.drawH, relY, K)
                  - Scale(h, anchorY, K),
          w |-> w,
          h |-> h ]

closestPointOnRect(px, py, rx, ry, rw, rh) ==
    [ x |-> Max(rx, Min(px, rx + rw)),
      y |-> Max(ry, Min(py, ry + rh)) ]

getRimRect(basketRect, leftConstraint, rightConstraint) ==
    LET rimTopY    == basketRect.y
                        + Scale(basketRect.h, Max(leftConstraint.yStart, rightConstraint.yStart), K)
        rimBottomY == basketRect.y
                        + Scale(basketRect.h, Min(leftConstraint.yEnd, rightConstraint.yEnd), K)
        rimLeftX   == basketRect.x + Scale(basketRect.w, leftConstraint.xEnd, K)
        rimRightX  == basketRect.x + Scale(basketRect.w, rightConstraint.xStart, K)
    IN  [ x |-> rimLeftX, y |-> rimTopY, w |-> rimRightX - rimLeftX,
          h |-> rimBottomY - rimTopY ]

\* ((end - start) / dt) * throwPower: pointer pixels per second times the
\* power scale, read as field units per second
rawVelocity(start, end, dt, throwPower) ==
    [ vx |-> Scale(Div((end.x - start.x) * 1000, dt), throwPower * V, PX * K),
      vy |-> Scale(Div((end.y - start.y) * 1000, dt), throwPower * V, PX * K) ]

\* calcVelocity without the clamp to maxSpeed
calcVelocityNoMax(start, end, dt, throwPower, minSpeed, maxSpeed) ==
    LET vx0   == rawVelocity(start, end, dt, throwPower).vx
        vy0   == rawVelocity(start, end, dt, throwPower).vy
        speed == Sqrt(vx0 * vx0 + vy0 * vy0)
        slow  == speed < minSpeed /\ speed > 0
    IN  [ vx |-> IF slow THEN Scale(vx0, minSpeed, speed) ELSE vx0,
          vy |-> IF slow THEN Scale(vy0, minSpeed, speed) ELSE vy0 ]

calcVelocity(start, end, dt, throwPower, minSpeed, maxSpeed) ==
    LET vx0   == rawVelocity(start, end, dt, throwPower).vx
        vy0   == rawVelocity(start, end, dt, throwPower).vy
        speed == Sqrt(vx0 * vx0 + vy0 * vy0)
        slow  == speed < minSpeed /\ speed > 0
        vx1   == IF slow THEN Scale(vx0, minSpeed, speed) ELSE vx0
        vy1   == IF slow THEN Scale(vy0, minSpeed, speed) ELSE vy0
        fast  == speed > maxSpeed
    IN  [ vx |-> IF fast THEN Scale(vx1, maxSpeed, speed) ELSE vx1,
          vy |-> IF fast THEN Scale(vy1, maxSpeed, speed) ELSE vy1 ]

----------------------------------------------------------------------------
(* helpers.ts of the football game *)

\* netLineAngle is null in FootballGame, so the line comes from the ratios
getSlantedLine(goalRect, netLineTopRatio, netLineBottomRatio) ==
    [ x1 |-> goalRect.x + Scale(goalRect.w, netLineTopRatio, K),
      y1 |-> goalRect.y,
      x2 |-> goalRect.x + Scale(goalRect.w, netLineBottomRatio, K),
      y2 |-> goalRect.y + goalRect.h ]

\* an angle is kept as its cosine and sine: atan2(dy, dx) is
\* [cos |-> dx / length, sin |-> dy / length]
getTopBarRect(goalRect, netLine, barThicknessRatio, minBarThickness) ==
    LET barThickness == Max(Scale(goalRect.h, barThicknessRatio, K), minBarThickness)
        x1 == netLine.x1
        y1 == netLine.y1
        x2 == goalRect.x + goalRect.w
        y2 == goalRect.y
        barLength == Sqrt((x2 - x1) * (x2 - x1) + (y2 - y1) * (y2 - y1))
    IN  [ x |-> x1, y |-> y1, w |-> barLength, h |-> barThickness,
          angle |-> [ cos |-> Scale(x2 - x1, N, OrEps(barLength)),
                      sin |-> Scale(y2 - y1, N, OrEps(barLength)) ],
          thicknessDirection |-> -1 ]

\* t is kept in thousandths
projectPointOnLineSegment(px, py, x1, y1, x2, y2) ==
    LET dx == x2 - x1
        dy == y2 - y1
        lengthSq == dx * dx + dy * dy
        t0 == Div((px - x1) * dx + (py - y1) * dy, OrEps(lengthSq \div K))
        t  == Max(0, Min(K, t0))
        closestX == x1 + Scale(t, dx, K)
        closestY == y1 + Scale(t, dy, K)
    IN  [ t |-> t, closestX |-> closestX, closestY |-> closestY,
          dist |-> Sqrt((px - closestX) * (px - closestX)
                          + (py - closestY) * (py - closestY)) ]

\* reflectVelocity with a gain of 1 + damping in place of the damping
reflectVelocityGain(vx, vy, nx, ny, damping) ==
    LET vDotN  == Div(vx * nx + vy * ny, N)
        vpxNew == vx - Div(2 * vDotN * nx, N)
        vpyNew == vy - Div(2 * vDotN * ny, N)
    IN  [ vx |-> Scale(vpxNew, K + damping, K), vy |-> Scale(vpyNew, K + damping, K) ]

reflectVelocity(vx, vy, nx, ny, damping) ==
    LET vDotN  == Div(vx * nx + vy * ny, N)
        vpxNew == vx - Div(2 * vDotN * nx, N)
        vpyNew == vy - Div(2 * vDotN * ny, N)
    IN  [ vx |-> Scale(vpxNew, damping, K), vy |-> Scale(vpyNew, damping, K) ]

\* cosA = cos(-angle), sinA = sin(-angle)
transformPoint(px, py, ox, oy, angle) ==
    LET cosA == angle.cos
        sinA == -angle.sin
    IN  [ x |-> Div((px - ox) * cosA - (py - oy) * sinA, N),
          y |-> Div((px - ox) * sinA + (py - oy) * cosA, N) ]

\* cosA = cos(angle), sinA = sin(angle)
transformNormal(nx, ny, angle) ==
    LET cosA == angle.cos
        sinA == angle.sin
    IN  [ x |-> Div(nx * cosA + ny * sinA, N),
          y |-> Div(-nx * sinA + ny * cosA, N) ]

\* the angle -a
NegAngle(a) == [cos |-> a.cos, sin |-> -a.sin]

----------------------------------------------------------------------------
(* The game instance.  null is FALSE for a reference (canvas, ctx, images,   *)
(* animationFrameId), 0 for lastTimestamp and lastClientWidth/Height (the  *)
(* code tests them with `!x` or compares them with a positive size), and   *)
(* [set |-> FALSE] for dragStart.                                          *)

NoDragStart == [set |-> FALSE, x |-> 0, y |-> 0, time |-> 0]

\* the field initialisers of the classes
NewGame(kind) ==
    [ kind |-> kind,
      ball |-> [ pos |-> [x |-> 7500, y |-> IF kind = "basketball" THEN 8000 ELSE 5000],
                 vel |-> [x |-> 0, y |-> 0],
                 maxThrowSpeed |-> 2300,
                 angle |-> 0,
                 angularVel |-> 0 ],
      images |-> FALSE,
      ctx |-> FALSE,
      canvas |-> FALSE,
      animationFrameId |-> FALSE,
      lastTimestamp |-> 0,
      isDragging |-> FALSE,
      dragStart |-> NoDragStart,
      pointerHistory |-> << >>,
      scoreMessageTimer |-> 0,
      wasInGoalArea |-> FALSE,
      isPlaying |-> FALSE,
      lastClientWidth |-> 0,
      lastClientHeight |-> 0,
      justBouncedFromConstraint |-> FALSE ]

\* canvas.clientWidth and canvas.clientHeight, in tenths of a pixel, for the
\* CSS size the browser gives the canvas
Canvas(size) ==
    [ clientWidth  |-> CanvasSizes[size].clientWidth * PX,
      clientHeight |-> CanvasSizes[size].clientHeight * PX ]

\* the drawImageContained(ctx, images.field, clientWidth, clientHeight,
\* 'cover', 1, 0.5, 0.5, field.originX, field.originY) every method calls
FieldRect(g, cv) ==
    drawImageContained(FieldImage, cv.clientWidth, cv.clientHeight, "cover",
                       K, 500, 500, FieldCfg(g.kind).originX, FieldCfg(g.kind).originY)

updateMaxThrowSpeed(g, cv) ==
    IF ~g.canvas THEN g
    ELSE [g EXCEPT !.ball.maxThrowSpeed =
                       IF cv.clientWidth < 786 * PX THEN 2300 ELSE 2000]

\* the canvas bitmap size and the context transform are not simulation state
resize(g, cv, width, height) ==
    IF ~g.canvas \/ ~g.ctx THEN g ELSE updateMaxThrowSpeed(g, cv)

\* render draws; the only fields it writes are those of the automatic resize
render(g, cv) ==
    IF ~g.ctx \/ ~g.images \/ ~g.canvas THEN g
    ELSE IF cv.clientWidth # g.lastClientWidth \/ cv.clientHeight # g.lastClientHeight
         THEN [ resize(g, cv, cv.clientWidth, cv.clientHeight) EXCEPT
                  !.lastClientWidth = cv.clientWidth,
                  !.lastClientHeight = cv.clientHeight ]
         ELSE g

\* init up to its await
initBegin(g, cv) ==
    updateMaxThrowSpeed(
        [ g EXCEPT !.canvas = TRUE, !.ctx = TRUE,
                   !.lastClientWidth = cv.clientWidth,
                   !.lastClientHeight = cv.clientHeight ], cv)

\* init after its await: the images have loaded
initResume(g, cv) ==
    LET g1 == [g EXCEPT !.images = TRUE]
        fieldRect == FieldRect(g1, cv)
        screenX == Scale(cv.clientWidth, 750, K)
        screenY == Scale(cv.clientHeight, 500, K)
        g2 == IF g1.ctx /\ g1.images /\ g1.canvas
              THEN [ g1 EXCEPT
                       !.ball.pos.x = clamp(Scale(screenX - fieldRect.offsetX, U, fieldRect.drawW), 0, U),
                       !.ball.pos.y = clamp(Scale(screenY - fieldRect.offsetY, U, fieldRect.drawH), 0, U) ]
              ELSE g1
        g3 == [ g2 EXCEPT !.ball.vel = [x |-> 0, y |-> 0], !.lastTimestamp = 0 ]
    IN  render(g3, cv)

\* requestAnimationFrame is the frame queue of env: see Start
start(g) ==
    LET g1 == [g EXCEPT !.isPlaying = TRUE]
    IN  IF g1.animationFrameId = FALSE
        THEN [g1 EXCEPT !.lastTimestamp = 0, !.animationFrameId = TRUE]
        ELSE g1

play(g) == [g EXCEPT !.isPlaying = TRUE]

pause(g) == [g EXCEPT !.isPlaying = FALSE]

reset(g, cv) ==
    [ render(g, cv) EXCEPT !.scoreMessageTimer = 0, !.wasInGoalArea = FALSE ]

destroy(g) ==
    [ g EXCEPT !.animationFrameId = FALSE, !.ctx = FALSE, !.images = FALSE,
               !.canvas = FALSE ]

\* the canvas fills the window from its top left corner (Basketball.tsx:43),
\* so getBoundingClientRect() is (0, 0, clientWidth, clientHeight); the
\* fractions x and y are kept in 1/U
getPointerRelativeCoords(e, cv) ==
    [ x |-> Scale(e.clientX - 0, U, cv.clientWidth),
      y |-> Scale(e.clientY - 0, U, cv.clientHeight) ]

setDragStart(g, cv, e, now) ==
    IF ~g.canvas \/ ~g.ctx \/ ~g.images THEN g
    ELSE LET rel == getPointerRelativeCoords(e, cv)
             pointerX == Scale(rel.x, cv.clientWidth, U)
             pointerY == Scale(rel.y, cv.clientHeight, U)
             fieldRect == FieldRect(g, cv)
         IN  [ g EXCEPT
                 !.dragStart = [set |-> TRUE, x |-> pointerX, y |-> pointerY, time |-> now],
                 !.ball.pos.x = clamp(Scale(pointerX - fieldRect.offsetX, U, fieldRect.drawW), 0, U),
                 !.ball.pos.y = clamp(Scale(pointerY - fieldRect.offsetY, U, fieldRect.drawH), 0, U),
                 !.ball.vel = [x |-> 0, y |-> 0],
                 !.pointerHistory = << >> ]

\* TrimHistory that evicts nothing
TrimHistoryNone(h, now) == h

\* the while loop that shifts the history
RECURSIVE TrimHistory(_, _)
TrimHistory(h, now) ==
    IF Len(h) > 15 \/ (Len(h) > 1 /\ now - h[1].time > 200)
    THEN TrimHistory(Tail(h), now)
    ELSE h

setBallPositionToPointer(g, cv, e, now) ==
    IF ~g.canvas \/ ~g.ctx \/ ~g.images THEN g
    ELSE LET rel == getPointerRelativeCoords(e, cv)
             pointerX == Scale(rel.x, cv.clientWidth, U)
             pointerY == Scale(rel.y, cv.clientHeight, U)
             fieldRect == FieldRect(g, cv)
         IN  [ g EXCEPT
                 !.ball.pos.x = clamp(Scale(pointerX - fieldRect.offsetX, U, fieldRect.drawW), 0, U),
                 !.ball.pos.y = clamp(Scale(pointerY - fieldRect.offsetY, U, fieldRect.drawH), 0, U),
                 !.pointerHistory =
                     TrimHistory(Append(g.pointerHistory,
                                        [x |-> pointerX, y |-> pointerY, time |-> now]), now) ]

\* PrevIndex that always falls back to the oldest sample
PrevIndexOldest(h, i) == 1

\* the backward scan of throwBall: the index of prev (1-based), starting
\* from i and falling back to the oldest sample
RECURSIVE PrevIndex(_, _)
PrevIndex(h, i) ==
    IF i < 1 THEN 1
    ELSE IF h[Len(h)].time - h[i].time > 50 THEN i
    ELSE PrevIndex(h, i - 1)

\* the body of `if (dt > 0)` in throwBall once calcVelocity has returned v
launch(g, v) ==
    LET cfg == BallCfg(g.kind)
        g1  == [ g EXCEPT !.ball.vel = [x |-> v.vx, y |-> v.vy],
                          !.ball.angularVel = Scale(v.vx, U, cfg.radius) ]
        groundY == FieldCfg(g.kind).groundY
    IN  IF g1.ball.pos.y + cfg.radius > groundY
        THEN LET below == (g1.ball.pos.y + cfg.radius) - groundY
                 bounceBoost == Scale(below * 5, V, U)
             IN  [ g1 EXCEPT !.ball.vel.y = @ + bounceBoost,
                             !.ball.pos.y = groundY - cfg.radius,
                             !.justBouncedFromConstraint = TRUE ]
        ELSE g1

throwBall(g) ==
    IF ~g.canvas \/ ~g.dragStart.set THEN g
    ELSE LET h  == g.pointerHistory
             g1 == IF Len(h) >= 2
                   THEN LET last == h[Len(h)]
                            prev == h[PrevIndex(h, Len(h) - 1)]
                            dt   == last.time - prev.time
                        IN  IF dt > 0
                            THEN launch(g, calcVelocity([x |-> prev.x, y |-> prev.y],
                                                        [x |-> last.x, y |-> last.y], dt,
                                                        BallCfg(g.kind).throwPower,
                                                        BallCfg(g.kind).minThrowSpeed,
                                                        g.ball.maxThrowSpeed))
                            ELSE g
                   ELSE g
         IN  [ g1 EXCEPT !.dragStart = NoDragStart, !.pointerHistory = << >> ]

handlePointerDown(g, cv, e, now) ==
    setDragStart([g EXCEPT !.isDragging = TRUE], cv, e, now)

handlePointerMove(g, cv, e, now) ==
    IF g.isDragging THEN setBallPositionToPointer(g, cv, e, now) ELSE g

\* handlePointerUp that leaves isDragging set
handlePointerUpStillDragging(g) ==
    IF g.isDragging THEN throwBall(g) ELSE g

handlePointerUp(g) ==
    [ (IF g.isDragging THEN throwBall(g) ELSE g) EXCEPT !.isDragging = FALSE ]

handleTouchStart(g, cv, touches, now) ==
    LET g1 == [g EXCEPT !.isDragging = TRUE]
    IN  IF Len(touches) > 0 THEN setDragStart(g1, cv, touches[1], now) ELSE g1

handleTouchMove(g, cv, touches, now) ==
    IF g.isDragging /\ Len(touches) > 0
    THEN setBallPositionToPointer(g, cv, touches[1], now)
    ELSE g

handleTouchEnd(g, changedTouches) ==
    [ (IF g.isDragging /\ Len(changedTouches) > 0 THEN throwBall(g) ELSE g)
        EXCEPT !.isDragging = FALSE ]

----------------------------------------------------------------------------
(* updateBall.  The method is one straight run of statements; the model     *)
(* cuts it into its steps.  Beside the instance each step carries the      *)
(* local ballXpx / ballYpx and the record of what was applied: hits (the   *)
(* obstacles whose collision branch ran, in order) and bounces (for each   *)
(* bounce the speed along the collision normal before and after it).       *)

\* |v . n| for a pixel velocity and a unit normal
NormalSpeed(vx, vy, nx, ny) == Abs(Div(vx * nx + vy * ny, N))

\* what updateBall hands on from step to step
Step(g, bounces) ==
    [ g |-> g, ballXpx |-> 0, ballYpx |-> 0, hits |-> << >>, bounces |-> bounces,
      scored |-> FALSE, inGoalArea |-> FALSE, completed |-> FALSE ]

\* integrate with a guard that stays set
integrateGuardKept(g, dt) ==
    LET cfg     == BallCfg(g.kind)
        groundY == FieldCfg(g.kind).groundY
        vy1 == g.ball.vel.y + Scale(PhysicsCfg(g.kind).gravity, dt, 1000)
        x1  == g.ball.pos.x + Div(g.ball.vel.x * dt, (1000 * V) \div U)
        y1  == g.ball.pos.y + Div(vy1 * dt, (1000 * V) \div U)
        targetAngularVel == Scale(g.ball.vel.x, U, cfg.radius)
        av1 == g.ball.angularVel + Scale(targetAngularVel - g.ball.angularVel, 100, K)
        angle1 == g.ball.angle + Scale(av1, dt, 1000)
        av2 == Scale(av1, cfg.spinFriction, K)
        ballBottom == y1 + cfg.radius
        g1 == [ g EXCEPT !.ball.vel.y = vy1, !.ball.pos.x = x1, !.ball.pos.y = y1,
                         !.ball.angle = angle1, !.ball.angularVel = av2 ]
        vyB0 == Scale(vy1, -FieldCfg(g.kind).groundDamping, K)
        vyB  == IF Abs(vyB0) < 100 THEN 0 ELSE vyB0
    IN  IF g1.justBouncedFromConstraint
        THEN Step(g1, << >>)
        ELSE IF ballBottom > groundY
        THEN Step([ g1 EXCEPT !.ball.pos.y = groundY - cfg.radius,
                              !.ball.vel.y = vyB,
                              !.ball.angularVel = Scale(av2, -950, K) + g1.ball.vel.x * 2 ],
                  << [kind |-> "ground", before |-> Abs(vy1), after |-> Abs(vyB)] >>)
        ELSE Step(g1, << >>)

\* gravity, position, spin, ground bounce: the two classes have the same text
integrate(g, dt) ==
    LET cfg     == BallCfg(g.kind)
        groundY == FieldCfg(g.kind).groundY
        vy1 == g.ball.vel.y + Scale(PhysicsCfg(g.kind).gravity, dt, 1000)
        x1  == g.ball.pos.x + Div(g.ball.vel.x * dt, (1000 * V) \div U)
        y1  == g.ball.pos.y + Div(vy1 * dt, (1000 * V) \div U)
        targetAngularVel == Scale(g.ball.vel.x, U, cfg.radius)
        av1 == g.ball.angularVel + Scale(targetAngularVel - g.ball.angularVel, 100, K)
        angle1 == g.ball.angle + Scale(av1, dt, 1000)
        av2 == Scale(av1, cfg.spinFriction, K)
        ballBottom == y1 + cfg.radius
        g1 == [ g EXCEPT !.ball.vel.y = vy1, !.ball.pos.x = x1, !.ball.pos.y = y1,
                         !.ball.angle = angle1, !.ball.angularVel = av2 ]
        vyB0 == Scale(vy1, -FieldCfg(g.kind).groundDamping, K)
        vyB  == IF Abs(vyB0) < 100 THEN 0 ELSE vyB0
    IN  IF g1.justBouncedFromConstraint
        THEN Step([g1 EXCEPT !.justBouncedFromConstraint = FALSE], << >>)
        ELSE IF ballBottom > groundY
        THEN Step([ g1 EXCEPT !.ball.pos.y = groundY - cfg.radius,
                              !.ball.vel.y = vyB,
                              !.ball.angularVel = Scale(av2, -950, K) + g1.ball.vel.x * 2 ],
                  << [kind |-> "ground", before |-> Abs(vy1), after |-> Abs(vyB)] >>)
        ELSE Step(g1, << >>)

\* basketball: force rolling spin
rollingBasketball(s) ==
    LET g   == s.g
        cfg == BallCfg(g.kind)
        onGround == g.ball.pos.y + cfg.radius >= FieldCfg(g.kind).groundY - 1
    IN  IF onGround /\ Abs(g.ball.vel.x) > 1
        THEN [s EXCEPT !.g.ball.angularVel = Scale(g.ball.vel.x, U, cfg.radius)]
        ELSE s

\* football: force rolling spin and apply friction
rollingFootball(s) ==
    LET g   == s.g
        cfg == BallCfg(g.kind)
        onGround == g.ball.pos.y + cfg.radius >= FieldCfg(g.kind).groundY - 1
        vx1 == Scale(g.ball.vel.x, FootballFriction, K)
    IN  IF onGround /\ Abs(g.ball.vel.x) > 1
        THEN [ s EXCEPT !.g.ball.angularVel = Scale(g.ball.vel.x, U, cfg.radius),
                        !.g.ball.vel.x = IF Abs(vx1) < 2 THEN 0 ELSE vx1 ]
        ELSE s

\* one side wall: the ball is put at newBallXpx and vel.x is turned round
wallBounce(s, fieldRect, newBallXpx) ==
    LET g   == s.g
        vx0 == Scale(g.ball.vel.x, -PhysicsCfg(g.kind).wallDamping, K)
        vx1 == IF Abs(vx0) < 100 THEN 0 ELSE vx0
    IN  [ s EXCEPT
            !.g = [ g EXCEPT !.ball.vel.x = vx1,
                             !.ball.angularVel = Scale(@, -950, K),
                             !.ball.pos.x = Scale(newBallXpx - fieldRect.offsetX, U, fieldRect.drawW) ],
            !.ballXpx = newBallXpx,
            !.bounces = Append(@, [kind |-> "wall", before |-> Abs(g.ball.vel.x), after |-> Abs(vx1)]) ]

\* the left edge test, then the right edge test
walls(s, fieldRect, ballRadiusPx, leftEdge, rightEdge) ==
    LET s1 == IF s.ballXpx - ballRadiusPx < leftEdge
              THEN wallBounce(s, fieldRect, leftEdge + ballRadiusPx)
              ELSE s
    IN  IF s1.ballXpx + ballRadiusPx > rightEdge
        THEN wallBounce(s1, fieldRect, rightEdge - ballRadiusPx)
        ELSE s1

\* the body of `if (dist < ballRadiusPx)` for one rectangle of the basket
rectCollision(s, i, rect, fieldRect, ballRadiusPx, closest, r) ==
    LET g    == s.g
        dx   == s.ballXpx - closest.x
        dy   == s.ballYpx - closest.y
        dist == Sqrt(dx * dx + dy * dy)
        nx   == Scale(dx, N, OrEps(dist))
        ny   == Scale(dy, N, OrEps(dist))
        ballXpx == closest.x + Scale(nx, ballRadiusPx, N)
        ballYpx == closest.y + Scale(ny, ballRadiusPx, N)
        overlapLeft   == Abs(closest.x - r.left)
        overlapRight  == Abs(closest.x - r.right)
        overlapTop    == Abs(closest.y - r.top)
        overlapBottom == Abs(closest.y - r.bottom)
        d1 == [damping |-> rect.damping.left, minOverlap |-> overlapLeft]
        d2 == IF overlapRight < d1.minOverlap
              THEN [damping |-> rect.damping.right, minOverlap |-> overlapRight] ELSE d1
        d3 == IF overlapTop < d2.minOverlap
              THEN [damping |-> rect.damping.top, minOverlap |-> overlapTop] ELSE d2
        d4 == IF overlapBottom < d3.minOverlap
              THEN [damping |-> rect.damping.bottom, minOverlap |-> overlapBottom] ELSE d3
        damping == d4.damping
        vpx == Scale(g.ball.vel.x, fieldRect.drawW, V)
        vpy == Scale(g.ball.vel.y, fieldRect.drawH, V)
        vDotN  == Div(vpx * nx + vpy * ny, N)
        vNormX == Div(vDotN * nx, N)
        vNormY == Div(vDotN * ny, N)
        vTanX  == vpx - vNormX
        vTanY  == vpy - vNormY
        vNormXNew == Scale(-vNormX, damping, K)
        vNormYNew == Scale(-vNormY, damping, K)
        newVpx == vTanX + vNormXNew
        newVpy == vTanY + vNormYNew
    IN  [ s EXCEPT
            !.g = [ g EXCEPT !.ball.vel.x = Scale(newVpx, V, fieldRect.drawW),
                             !.ball.vel.y = Scale(newVpy, V, fieldRect.drawH),
                             !.ball.pos.x = Scale(ballXpx - fieldRect.offsetX, U, fieldRect.drawW),
                             !.ball.pos.y = Scale(ballYpx - fieldRect.offsetY, U, fieldRect.drawH),
                             !.ball.angularVel = Scale(@, -950, K) ],
            !.ballXpx = ballXpx,
            !.ballYpx = ballYpx,
            !.hits = Append(@, [obstacle |-> "rect", index |-> i]),
            !.bounces = Append(@, [ kind |-> "rect",
                                    before |-> NormalSpeed(vpx, vpy, nx, ny),
                                    after  |-> NormalSpeed(newVpx, newVpy, nx, ny) ]) ]

\* the pixel rectangle of one constraint of the basket
constraintRect(basketRect, coords) ==
    [ left   |-> basketRect.x + Scale(basketRect.w, coords.xStart, K),
      right  |-> basketRect.x + Scale(basketRect.w, coords.xEnd, K),
      top    |-> basketRect.y + Scale(basketRect.h, coords.yStart, K),
      bottom |-> basketRect.y + Scale(basketRect.h, coords.yEnd, K) ]

\* whether the ball, at its pixel position, overlaps a rectangle
overlapsRect(ballXpx, ballYpx, ballRadiusPx, r) ==
    LET closest == closestPointOnRect(ballXpx, ballYpx, r.left, r.top,
                                      r.right - r.left, r.bottom - r.top)
        dx == ballXpx - closest.x
        dy == ballYpx - closest.y
    IN  Sqrt(dx * dx + dy * dy) < ballRadiusPx

\* `for (const rect of this.basket.rectConstraints)` from rectangle i on,
\* with its `break` after the first collision
RECURSIVE rectLoop(_, _, _, _, _)
rectLoop(s, i, fieldRect, basketRect, ballRadiusPx) ==
    IF i > Len(BasketballBasket.rectConstraints) THEN s
    ELSE LET rect == BasketballBasket.rectConstraints[i]
             r    == constraintRect(basketRect, rect.coords)
             closest == closestPointOnRect(s.ballXpx, s.ballYpx, r.left, r.top,
                                           r.right - r.left, r.bottom - r.top)
         IN  IF overlapsRect(s.ballXpx, s.ballYpx, ballRadiusPx, r)
             THEN rectCollision(s, i, rect, fieldRect, ballRadiusPx, closest, r)
             ELSE rectLoop(s, i + 1, fieldRect, basketRect, ballRadiusPx)

BasketRect(fieldRect) ==
    getImageDrawRect(fieldRect, BasketballBasket.relX, BasketballBasket.relY,
                     BasketballBasket.relW, BasketballBasket.scale,
                     BasketImage.naturalHeight, BasketImage.naturalWidth, 0, K)

\* the basketball goal detection
goalBasketball(s, fieldRect, basketRect) ==
    LET g == s.g
        leftConstraint  == BasketballBasket.rectConstraints[2].coords
        rightConstraint == BasketballBasket.rectConstraints[3].coords
        rimRect == getRimRect(basketRect, leftConstraint, rightConstraint)
        ballXpx_goal == fieldRect.offsetX + Scale(fieldRect.drawW, g.ball.pos.x, U)
        ballYpx_goal == fieldRect.offsetY + Scale(fieldRect.drawH, g.ball.pos.y, U)
        inGoalArea == /\ ballXpx_goal > rimRect.x
                      /\ ballXpx_goal < rimRect.x + rimRect.w
                      /\ ballYpx_goal > rimRect.y
                      /\ ballYpx_goal < rimRect.y + rimRect.h
        score == inGoalArea /\ ~g.wasInGoalArea /\ g.ball.vel.y > 0
    IN  [ s EXCEPT
            !.g = [ g EXCEPT !.scoreMessageTimer = IF score THEN 2000 ELSE @,
                             !.wasInGoalArea = inGoalArea ],
            !.scored = score,
            !.inGoalArea = inGoalArea,
            !.completed = TRUE ]

\* updateBall from its test of canvas and images on; s is the step the
\* integration and the rolling constraint leave
constraintsBasketball(s, cv, fieldRect) ==
    IF ~s.g.canvas \/ ~s.g.images THEN s
    ELSE LET basketRect == BasketRect(fieldRect)
             ballRadiusPx == Scale(BallCfg(s.g.kind).radius, fieldRect.drawW, U)
             scaleFactor == Scale(fieldRect.drawW, FieldCfg(s.g.kind).originX, K)
             leftEdge  == Max(0, fieldRect.offsetX) + Scale(fieldRect.offsetX, PX, scaleFactor)
             rightEdge == Min(cv.clientWidth, fieldRect.offsetX + fieldRect.drawW)
                            + Scale(fieldRect.offsetX, PX, scaleFactor)
         IN  goalBasketball(
                 rectLoop(
                     walls([ s EXCEPT
                               !.ballXpx = fieldRect.offsetX + Scale(fieldRect.drawW, s.g.ball.pos.x, U),
                               !.ballYpx = fieldRect.offsetY + Scale(fieldRect.drawH, s.g.ball.pos.y, U) ],
                           fieldRect, ballRadiusPx, leftEdge, rightEdge),
                     1, fieldRect, basketRect, ballRadiusPx),
                 fieldRect, basketRect)

updateBallBasketball(g, cv, dt) ==
    constraintsBasketball(rollingBasketball(integrate(g, dt)), cv, FieldRect(g, cv))

\* the pixel rectangle of the goal
GoalRect(fieldRect) ==
    getImageDrawRect(fieldRect, FootballGoal.relX, FootballGoal.relY, FootballGoal.relW,
                     FootballGoal.scale, FootballGoal.relH, FootballGoal.relW, 0, 500)

\* constraints.net.getSlantedLine(goalRect)
NetLine(goalRect) ==
    getSlantedLine(goalRect, FootballConstraints.net.netLineTopRatio,
                   FootballConstraints.net.netLineBottomRatio)

\* constraints.topBar.getRect(goalRect)
TopBarRect(goalRect) ==
    getTopBarRect(goalRect, NetLine(goalRect), FootballConstraints.topBar.barThicknessRatio,
                  FootballConstraints.topBar.minBarThickness)

\* the body of `if (dist < ballRadiusPx)` for the net
netCollision(s, fieldRect, ballRadiusPx, netLine, p) ==
    LET g   == s.g
        bx  == s.ballXpx
        by  == s.ballYpx
        len == Sqrt((netLine.x2 - netLine.x1) * (netLine.x2 - netLine.x1)
                      + (netLine.y2 - netLine.y1) * (netLine.y2 - netLine.y1))
        nx0 == Scale(netLine.y2 - netLine.y1, N, len)
        ny0 == Scale(-(netLine.x2 - netLine.x1), N, len)
        dot == (bx - p.closestX) * nx0 + (by - p.closestY) * ny0
        nx  == IF dot < 0 THEN -nx0 ELSE nx0
        ny  == IF dot < 0 THEN -ny0 ELSE ny0
        overlap == ballRadiusPx - p.dist
        ballXpx == s.ballXpx + Scale(nx, overlap, N)
        ballYpx == s.ballYpx + Scale(ny, overlap, N)
        vpx == Scale(g.ball.vel.x, fieldRect.drawW, V)
        vpy == Scale(g.ball.vel.y, fieldRect.drawH, V)
        bounceBoost == 40 * PX
        r == reflectVelocity(vpx, vpy, nx, ny, K)
        vpxNew == r.vx + Scale(nx, bounceBoost, N)
        vpyNew == r.vy + Scale(ny, bounceBoost, N)
        damping == IF nx > 0 THEN FootballConstraints.net.dampingRight
                   ELSE FootballConstraints.net.dampingLeft
        vpxOut == Scale(vpxNew, damping, K)
        vpyOut == Scale(vpyNew, damping, K)
    IN  [ s EXCEPT
            !.g = [ g EXCEPT !.ball.vel.x = Scale(vpxOut, V, fieldRect.drawW),
                             !.ball.vel.y = Scale(vpyOut, V, fieldRect.drawH),
                             !.ball.pos.x = Scale(ballXpx - fieldRect.offsetX, U, fieldRect.drawW),
                             !.ball.pos.y = Scale(ballYpx - fieldRect.offsetY, U, fieldRect.drawH),
                             !.ball.angularVel = Scale(@, -950, K) ],
            !.ballXpx = ballXpx,
            !.ballYpx = ballYpx,
            !.hits = Append(@, [obstacle |-> "net", index |-> 1]),
            !.bounces = Append(@, [ kind |-> "net",
                                    before |-> NormalSpeed(vpx, vpy, nx, ny),
                                    after  |-> NormalSpeed(vpxOut, vpyOut, nx, ny) ]) ]

\* whether the ball, at its pixel position, overlaps the net segment
overlapsNet(ballXpx, ballYpx, ballRadiusPx, netLine) ==
    projectPointOnLineSegment(ballXpx, ballYpx, netLine.x1, netLine.y1,
                              netLine.x2, netLine.y2).dist < ballRadiusPx

\* the closest point of the bar, in the frame of the bar, to the ball centre
closestOnBar(ballXpx, ballYpx, topBarRect) ==
    LET rel == transformPoint(ballXpx, ballYpx, topBarRect.x, topBarRect.y, topBarRect.angle)
        closestXBar == Max(0, Min(topBarRect.w, rel.x))
        closestYBar == Max(-topBarRect.h, Min(0, rel.y))
    IN  [ relX |-> rel.x, relY |-> rel.y,
          closestXBar |-> closestXBar, closestYBar |-> closestYBar,
          distSqBar |-> (rel.x - closestXBar) * (rel.x - closestXBar)
                          + (rel.y - closestYBar) * (rel.y - closestYBar) ]

\* whether the ball, at its pixel position, overlaps the top bar
overlapsBar(ballXpx, ballYpx, ballRadiusPx, topBarRect) ==
    closestOnBar(ballXpx, ballYpx, topBarRect).distSqBar < ballRadiusPx * ballRadiusPx

\* the body of `if (distSqBar < ballRadiusPx * ballRadiusPx)` for the top bar
barCollision(s, fieldRect, ballRadiusPx, topBarRect, c) ==
    LET g    == s.g
        dist == Sqrt(c.distSqBar)
        nx   == IF dist = 0 THEN 0 ELSE Scale(c.relX - c.closestXBar, N, dist)
        ny   == IF dist = 0 THEN -N ELSE Scale(c.relY - c.closestYBar, N, dist)
        newRelX == c.closestXBar + Scale(nx, ballRadiusPx, N)
        newRelY == c.closestYBar + Scale(ny, ballRadiusPx, N)
        global  == transformPoint(newRelX, newRelY, 0, 0, NegAngle(topBarRect.angle))
        ballXpx == topBarRect.x + global.x
        ballYpx == topBarRect.y + global.y
        nG  == transformNormal(nx, ny, topBarRect.angle)
        vpx == Scale(g.ball.vel.x, fieldRect.drawW, V)
        vpy == Scale(g.ball.vel.y, fieldRect.drawH, V)
        r   == reflectVelocity(vpx, vpy, nG.x, nG.y, FootballConstraints.topBar.damping)
    IN  [ s EXCEPT
            !.g = [ g EXCEPT !.ball.vel.x = Scale(r.vx, V, fieldRect.drawW),
                             !.ball.vel.y = Scale(r.vy, V, fieldRect.drawH),
                             !.ball.pos.x = Scale(ballXpx - fieldRect.offsetX, U, fieldRect.drawW),
                             !.ball.pos.y = Scale(ballYpx - fieldRect.offsetY, U, fieldRect.drawH),
                             !.ball.angularVel = Scale(@, -950, K) ],
            !.ballXpx = ballXpx,
            !.ballYpx = ballYpx,
            !.hits = Append(@, [obstacle |-> "topBar", index |-> 2]),
            !.bounces = Append(@, [ kind |-> "topBar",
                                    before |-> NormalSpeed(vpx, vpy, nG.x, nG.y),
                                    after  |-> NormalSpeed(r.vx, r.vy, nG.x, nG.y) ]) ]

\* goalFootball without the test of wasInGoalArea
goalFootballLevel(s, goalRect) ==
    LET g == s.g
        inGoalArea == /\ s.ballXpx > goalRect.x
                      /\ s.ballXpx < goalRect.x + goalRect.w
                      /\ s.ballYpx > goalRect.y
                      /\ s.ballYpx < goalRect.y + goalRect.h
        score == inGoalArea /\ g.ball.vel.x < 0
    IN  [ s EXCEPT
            !.g = [ g EXCEPT !.scoreMessageTimer = IF score THEN 2000 ELSE @,
                             !.wasInGoalArea = inGoalArea ],
            !.scored = score,
            !.inGoalArea = inGoalArea,
            !.completed = TRUE ]

\* the football goal detection
goalFootball(s, goalRect) ==
    LET g == s.g
        inGoalArea == /\ s.ballXpx > goalRect.x
                      /\ s.ballXpx < goalRect.x + goalRect.w
                      /\ s.ballYpx > goalRect.y
                      /\ s.ballYpx < goalRect.y + goalRect.h
        score == inGoalArea /\ ~g.wasInGoalArea /\ g.ball.vel.x < 0
    IN  [ s EXCEPT
            !.g = [ g EXCEPT !.scoreMessageTimer = IF score THEN 2000 ELSE @,
                             !.wasInGoalArea = inGoalArea ],
            !.scored = score,
            !.inGoalArea = inGoalArea,
            !.completed = TRUE ]

\* the net: the projection of the ball centre, then the collision
net(s, fieldRect, ballRadiusPx, netLine) ==
    IF overlapsNet(s.ballXpx, s.ballYpx, ballRadiusPx, netLine)
    THEN netCollision(s, fieldRect, ballRadiusPx, netLine,
                      projectPointOnLineSegment(s.ballXpx, s.ballYpx, netLine.x1,
                                                netLine.y1, netLine.x2, netLine.y2))
    ELSE s

\* the top bar, at the position the net has left the ball at
topBar(s, fieldRect, ballRadiusPx, topBarRect) ==
    IF overlapsBar(s.ballXpx, s.ballYpx, ballRadiusPx, topBarRect)
    THEN barCollision(s, fieldRect, ballRadiusPx, topBarRect,
                      closestOnBar(s.ballXpx, s.ballYpx, topBarRect))
    ELSE s

\* updateBall from its test of canvas and images on; s is the step the
\* integration and the rolling constraint leave
constraintsFootball(s, cv, fieldRect) ==
    IF ~s.g.canvas \/ ~s.g.images THEN s
    ELSE LET ballRadiusPx == Scale(BallCfg(s.g.kind).radius, fieldRect.drawW, U)
             leftEdge  == Max(0, fieldRect.offsetX)
             rightEdge == Min(cv.clientWidth, fieldRect.offsetX + fieldRect.drawW)
             goalRect  == GoalRect(fieldRect)
         IN  goalFootball(
                 topBar(
                     net(walls([ s EXCEPT
                                   !.ballXpx = fieldRect.offsetX + Scale(fieldRect.drawW, s.g.ball.pos.x, U),
                                   !.ballYpx = fieldRect.offsetY + Scale(fieldRect.drawH, s.g.ball.pos.y, U) ],
                               fieldRect, ballRadiusPx, leftEdge, rightEdge),
                         fieldRect, ballRadiusPx, NetLine(goalRect)),
                     fieldRect, ballRadiusPx, TopBarRect(goalRect)),
                 goalRect)

updateBallFootball(g, cv, dt) ==
    constraintsFootball(rollingFootball(integrate(g, dt)), cv, FieldRect(g, cv))

updateBall(g, cv, dt) ==
    IF g.kind = "basketball" THEN updateBallBasketball(g, cv, dt)
    ELSE updateBallFootball(g, cv, dt)

----------------------------------------------------------------------------
(* gameLoop *)

\* the automatic resize at the head of gameLoop
autoResize(g, cv) ==
    IF g.canvas /\ (cv.clientWidth # g.lastClientWidth \/ cv.clientHeight # g.lastClientHeight)
    THEN [ resize(g, cv, cv.clientWidth, cv.clientHeight) EXCEPT
             !.lastClientWidth = cv.clientWidth,
             !.lastClientHeight = cv.clientHeight ]
    ELSE g

\* the countdown of the score message
countdown(g, dt) ==
    IF g.scoreMessageTimer > 0
    THEN [g EXCEPT !.scoreMessageTimer = Max(0, @ - dt)]
    ELSE g

\* frameEnd with the countdown outside `if (this.isPlaying)`
frameEndCountingPaused(u, isPlaying, ranUpdate, cv, dt) ==
    [ u EXCEPT !.g = render(countdown(u.g, dt), cv) ]
        @@ [ranUpdate |-> ranUpdate, dt |-> dt]

\* the end of a frame: u is what updateBall has left, or the untouched
\* instance when it did not run
frameEnd(u, isPlaying, ranUpdate, cv, dt) ==
    [ u EXCEPT !.g = render(IF isPlaying THEN countdown(u.g, dt) ELSE u.g, cv) ]
        @@ [ranUpdate |-> ranUpdate, dt |-> dt]

\* frame without the test of isDragging
frameWhileDragging(g, cv, dt) ==
    frameEnd(IF g.isPlaying THEN updateBall(g, cv, dt) ELSE Step(g, << >>),
             g.isPlaying, g.isPlaying, cv, dt)

\* gameLoop from `if (this.isPlaying)` to render(): what one frame does once
\* its dt is known
frame(g, cv, dt) ==
    frameEnd(IF g.isPlaying /\ ~g.isDragging THEN updateBall(g, cv, dt) ELSE Step(g, << >>),
             g.isPlaying, g.isPlaying /\ ~g.isDragging, cv, dt)

\* gameLoop that forgets the id of the frame it requests
gameLoopForgetsId(g, cv, timestamp) ==
    [ frame([autoResize(g, cv) EXCEPT !.lastTimestamp = timestamp], cv,
            Min(timestamp - (IF g.lastTimestamp = 0 THEN timestamp ELSE g.lastTimestamp), 50))
        EXCEPT !.g.animationFrameId = FALSE ]

\* gameLoop without the clamp of dt
gameLoopUnclamped(g, cv, timestamp) ==
    [ frame([autoResize(g, cv) EXCEPT !.lastTimestamp = timestamp], cv,
            timestamp - (IF g.lastTimestamp = 0 THEN timestamp ELSE g.lastTimestamp))
        EXCEPT !.g.animationFrameId = TRUE ]

\* the callback of requestAnimationFrame; it ends by requesting the next
\* frame.  The automatic resize leaves lastTimestamp alone, so dt is taken
\* from the lastTimestamp the callback starts with (timestamp itself when it
\* is 0)
gameLoop(g, cv, timestamp) ==
    [ frame([autoResize(g, cv) EXCEPT !.lastTimestamp = timestamp], cv,
            Min(timestamp - (IF g.lastTimestamp = 0 THEN timestamp ELSE g.lastTimestamp), 50))
        EXCEPT !.g.animationFrameId = TRUE ]

----------------------------------------------------------------------------
(* The browser and the component around one game instance *)

\* pointer positions of the events, in tenths of a CSS pixel
Points ==
    { [clientX |-> 7500, clientY |-> 4000], [clientX |-> 7200, clientY |-> 3600] }

\* milliseconds between two animation frames
FrameGaps == {30, 60}

\* milliseconds a pointer or touch move comes after the event before it
MoveGaps == {30}

\* the clock stops here
MaxTime == 90

\* what a step is observed to have done
Observed(op) ==
    [ op |-> op, ranUpdate |-> FALSE, completed |-> FALSE, dt |-> 0,
      hits |-> << >>, bounces |-> << >>, scored |-> FALSE,
      inGoalArea |-> FALSE, inGoalAreaBefore |-> FALSE ]

\* the observation of a frame f
ObservedFrame(f) ==
    [ op |-> "gameLoop", ranUpdate |-> f.ranUpdate, completed |-> f.completed,
      dt |-> f.dt, hits |-> f.hits, bounces |-> f.bounces, scored |-> f.scored,
      inGoalArea |-> f.inGoalArea,
      inGoalAreaBefore |-> obs.op = "gameLoop" /\ obs.completed /\ obs.inGoalArea ]

cv == Canvas(env.size)

Live == env.mounted /\ ~env.destroyed

Init ==
    /\ game \in {NewGame(kind) : kind \in Kinds}
    /\ env \in [ now : {0}, gap : {0}, size : 1..Len(CanvasSizes), pending : {0},
                 listening : {FALSE}, loading : {FALSE},
                 mounted : {FALSE}, destroyed : {FALSE} ]
    /\ obs = Observed("new")

\* the effects of the component on mount: init() up to its await, then
\* play() or pause() for the isPlaying prop
Mount ==
    /\ ~env.mounted
    /\ \E isPlaying \in BOOLEAN :
         game' = IF isPlaying THEN play(initBegin(game, cv)) ELSE pause(initBegin(game, cv))
    /\ env' = [env EXCEPT !.mounted = TRUE, !.loading = TRUE]
    /\ obs' = Observed("init")

\* the images have loaded: init() resumes and the chained start() follows it
InitResolved ==
    /\ env.loading
    /\ \E g1 \in {initResume(game, cv)} :
         /\ game' = start(g1)
         /\ env' = [ env EXCEPT !.loading = FALSE,
                                !.listening = g1.canvas,
                                !.pending = IF g1.animationFrameId = FALSE THEN @ + 1 ELSE @ ]
    /\ obs' = Observed("start")

Play ==
    /\ Live
    /\ game' = play(game)
    /\ UNCHANGED env
    /\ obs' = Observed("play")

Pause ==
    /\ Live
    /\ game' = pause(game)
    /\ UNCHANGED env
    /\ obs' = Observed("pause")

Reset ==
    /\ Live
    /\ game' = reset(game, cv)
    /\ UNCHANGED env
    /\ obs' = Observed("reset")

\* the cleanup of the effect; cancelAnimationFrame and removeEventListener
\* act on the browser
Destroy ==
    /\ Live
    /\ game' = destroy(game)
    /\ env' = [ env EXCEPT !.destroyed = TRUE,
                           !.pending = IF game.animationFrameId # FALSE THEN @ - 1 ELSE @,
                           !.listening = IF game.canvas THEN FALSE ELSE @ ]
    /\ obs' = Observed("destroy")

\* the browser gives the canvas another CSS size
CssResize ==
    /\ \E size \in 1..Len(CanvasSizes) :
         /\ size # env.size
         /\ env' = [env EXCEPT !.size = size]
    /\ UNCHANGED game
    /\ obs' = Observed("css")

PointerDown ==
    /\ env.listening
    /\ \E e \in Points : game' = handlePointerDown(game, cv, e, env.now)
    /\ UNCHANGED env
    /\ obs' = Observed("pointerdown")

PointerMove ==
    /\ env.listening
    /\ \E gap \in MoveGaps, e \in Points :
         /\ env.now + gap <= MaxTime
         /\ game' = handlePointerMove(game, cv, e, env.now + gap)
         /\ env' = [env EXCEPT !.now = @ + gap]
    /\ obs' = Observed("pointermove")

\* pointerup and pointerleave
PointerUp ==
    /\ env.listening
    /\ game' = handlePointerUp(game)
    /\ UNCHANGED env
    /\ obs' = Observed("pointerup")

TouchStart ==
    /\ env.listening
    /\ \E touches \in {<< >>} \cup {<<e>> : e \in Points} :
         game' = handleTouchStart(game, cv, touches, env.now)
    /\ UNCHANGED env
    /\ obs' = Observed("touchstart")

TouchMove ==
    /\ env.listening
    /\ \E gap \in MoveGaps, touches \in {<< >>} \cup {<<e>> : e \in Points} :
         /\ env.now + gap <= MaxTime
         /\ game' = handleTouchMove(game, cv, touches, env.now + gap)
         /\ env' = [env EXCEPT !.now = @ + gap]
    /\ obs' = Observed("touchmove")

\* touchend and touchcancel
TouchEnd ==
    /\ env.listening
    /\ \E changedTouches \in {<< >>} \cup {<<e>> : e \in Points} :
         game' = handleTouchEnd(game, changedTouches)
    /\ UNCHANGED env
    /\ obs' = Observed("touchend")

\* the browser runs a requested animation frame
Tick ==
    /\ env.pending > 0
    /\ \E gap \in FrameGaps :
         /\ env.now + gap <= MaxTime
         /\ \E f \in {gameLoop(game, cv, env.now + gap)} :
              /\ game' = f.g
              /\ obs' = ObservedFrame(f)
         /\ env' = [env EXCEPT !.now = @ + gap]

Next ==
    \/ Mount
    \/ InitResolved
    \/ Play
    \/ Pause
    \/ Reset
    \/ Destroy
    \/ CssResize
    \/ PointerDown
    \/ PointerMove
    \/ PointerUp
    \/ TouchStart
    \/ TouchMove
    \/ TouchEnd
    \/ Tick

Spec == Init /\ [][Next]_vars

----------------------------------------------------------------------------
(* Flights.  An instance that is mounted, loaded and playing, its ball let  *)
(* go by a pointer gesture; from there only animation frames run.          *)

\* the instance once init() has resolved and start() has run
Ready(kind, size) ==
    start(initResume(play(initBegin(NewGame(kind), Canvas(size))), Canvas(size)))

\* milliseconds between the events of the gesture
GestureGap == 15 + 15

\* pointerdown at from, two pointermoves (to from, then to from + by), a frame
\* while the ball is held, pointerup
Thrown(kind, size, from, by) ==
    handlePointerUp(
        gameLoop(
            handlePointerMove(
                handlePointerMove(
                    handlePointerDown(Ready(kind, size), Canvas(size), from, 0),
                    Canvas(size), from, GestureGap),
                Canvas(size),
                [clientX |-> from.clientX + by.x, clientY |-> from.clientY + by.y],
                2 * GestureGap),
            Canvas(size), 2 * GestureGap).g)

\* where the pointer is when the gesture starts, in tenths of a CSS pixel from
\* the left edge of the field picture
FlightFrom ==
    { [x |-> 2000, y |-> 3060],    \* just above the rim of the basket
      [x |-> 1450, y |-> 3000],    \* on the edge shared by the backboard and the rim block
      [x |-> 2700, y |-> 2900],    \* above the right rim block
      [x |-> 1100, y |-> 3200],    \* at the corner of the goal where net and bar meet
      [x |-> 1000, y |-> 4000],    \* on the net
      [x |-> 1900, y |-> 2950],    \* above the top bar
      [x |-> 2600, y |-> 4500],    \* right of the goal mouth
      [x |-> 5000, y |-> 6120],    \* touching the basketball ground line
      [x |-> 5000, y |-> 5360],    \* touching the football ground line
      [x |-> 5000, y |-> 7000],    \* below both ground lines
      [x |-> 500, y |-> 5000],     \* near the left wall
      [x |-> 5500, y |-> 2000],    \* mid field, high
      [x |-> 9500, y |-> 5000] }   \* near the right edge of the field picture

\* how far the pointer moves in the last GestureGap of the gesture
FlightBy ==
    { [x |-> 0, y |-> 0], [x |-> 0, y |-> 3], [x |-> 30, y |-> 0], [x |-> -30, y |-> 0],
      [x |-> -300, y |-> -400], [x |-> 300, y |-> 400] }

\* milliseconds between two animation frames of a flight
FlightGaps == {16}

\* the clock of a flight stops here
MaxFlightTime == 700

FlightInit ==
    /\ \E kind \in Kinds, size \in 1..Len(CanvasSizes), from \in FlightFrom, by \in FlightBy :
         LET offsetX == FieldRect(NewGame(kind), Canvas(size)).offsetX
             e == [clientX |-> from.x + offsetX, clientY |-> from.y]
         IN  /\ e.clientX >= 0
             /\ e.clientX + by.x <= Canvas(size).clientWidth
             /\ game = Thrown(kind, size, e, by)
             /\ env = [ now |-> 2 * GestureGap, gap |-> 0, size |-> size, pending |-> 1,
                        listening |-> TRUE, loading |-> FALSE,
                        mounted |-> TRUE, destroyed |-> FALSE ]
    /\ obs = Observed("pointerup")

FlightTick ==
    /\ env.pending > 0
    /\ \E gap \in FlightGaps :
         /\ env.now + gap <= MaxFlightTime
         /\ \E f \in {gameLoop(game, cv, env.now + gap)} :
              /\ game' = f.g
              /\ obs' = ObservedFrame(f)
         /\ env' = [env EXCEPT !.now = @ + gap]

FlightNext == FlightTick

SpecFlight == FlightInit /\ [][FlightNext]_vars

----------------------------------------------------------------------------
(* Properties of a flight *)

\* C3: in every tick at most one obstacle collision is applied to the ball
OneCollisionPerTick == Len(obs.hits) <= 1

\* C4: goal detection is edge-triggered: a tick that finds the ball in the
\* goal area, after a tick that found it there too, starts no countdown
GoalEdgeTriggered ==
    (obs.op = "gameLoop" /\ obs.completed /\ obs.inGoalAreaBefore /\ obs.inGoalArea)
        => ~obs.scored

\* whether the velocity satisfies the scoring sign condition of the game
ScoringSign ==
    IF game.kind = "basketball" THEN game.ball.vel.y > 0 ELSE game.ball.vel.x < 0

\* a tick found the ball, moving in the scoring direction, in the goal area for
\* the second time running while the countdown of the first entry runs
GoalStayedInside ==
    /\ obs.op = "gameLoop" /\ obs.completed
    /\ obs.inGoalAreaBefore /\ obs.inGoalArea
    /\ ScoringSign
    /\ game.scoreMessageTimer > 0

\* C8 as stated: after any bounce, the net included, the speed along the
\* collision normal is at most what it was before the bounce
BounceNeverGains ==
    \A i \in 1..Len(obs.bounces) : obs.bounces[i].after <= obs.bounces[i].before

\* C8: after a ground, side-wall, basket rectangle or top bar bounce the speed
\* along the collision normal is at most what it was before the bounce
BounceNeverGainsButNet ==
    \A i \in 1..Len(obs.bounces) :
        obs.bounces[i].kind # "net" => obs.bounces[i].after <= obs.bounces[i].before

\* a tick bounced the moving ball off an obstacle other than the net
ObstacleBounce ==
    \E i \in 1..Len(obs.bounces) :
        /\ obs.bounces[i].kind \in {"rect", "topBar"}
        /\ obs.bounces[i].before > 0

\* C9: a tick that starts with the ball resting on the ground line with
\* horizontal velocity 0.5 and touches no wall and no obstacle ends with
\* angularVel = vel.x / radius
RollingCapture ==
    [][ ( /\ obs'.op = "gameLoop" /\ obs'.ranUpdate
          /\ game.ball.pos.y + BallCfg(game.kind).radius = FieldCfg(game.kind).groundY
          /\ game.ball.vel.y = 0
          /\ game.ball.vel.x = 500
          /\ obs'.hits = << >>
          /\ \A i \in 1..Len(obs'.bounces) : obs'.bounces[i].kind # "wall" )
        => game'.ball.angularVel = Scale(game'.ball.vel.x, U, BallCfg(game'.kind).radius) ]_vars

----------------------------------------------------------------------------
(* Drops.  The ball is put down in mid air by a pointer that does not move  *)
(* and the display then runs its frames at a fixed interval.  The clock is *)
(* left out of the state: every frame has the same dt.                     *)

\* pointerdown at e and pointerup, no move between them
Dropped(kind, size, e) ==
    handlePointerUp(handlePointerDown(Ready(kind, size), Canvas(size), e, 0))

\* where the pointer lets the ball go, in tenths of a CSS pixel
DropFrom ==
    { [clientX |-> 5000, clientY |-> 2000], [clientX |-> 5000, clientY |-> 4000],
      [clientX |-> 4000, clientY |-> 5000] }

\* the fixed frame intervals, in milliseconds: 60 Hz, 30 Hz, 20 Hz
DropGaps == {16, 33, 50}

DropInit ==
    /\ \E kind \in Kinds, size \in 1..Len(CanvasSizes), e \in DropFrom, gap \in DropGaps :
         /\ game = Dropped(kind, size, e)
         /\ env = [ now |-> 0, gap |-> gap, size |-> size, pending |-> 1,
                    listening |-> TRUE, loading |-> FALSE,
                    mounted |-> TRUE, destroyed |-> FALSE ]
    /\ obs = Observed("pointerup")

\* a frame env.gap milliseconds after the frame before it
DropTick ==
    /\ env.pending > 0
    /\ \E f \in {frame(game, cv, Min(env.gap, 50))} :
         /\ game' = f.g
         /\ obs' = ObservedFrame(f)
    /\ UNCHANGED env

DropNext == DropTick

SpecDrop == DropInit /\ [][DropNext]_vars

\* the ball lies on the ground line and does not move vertically
AtRest ==
    /\ game.ball.vel.y = 0
    /\ game.ball.pos.y = FieldCfg(game.kind).groundY - BallCfg(game.kind).radius

\* C10: a dropped ball comes to rest: once a tick has ended with vel.y = 0 and
\* pos.y = groundY - radius, every later tick ends so.  (With a fixed dt and no
\* input the vertical motion of the ball is a function of pos.y and vel.y
\* alone, so a rest that one tick leaves is left again whenever it is reached.)
DroppedBallRests == [][AtRest => AtRest']_vars

----------------------------------------------------------------------------
(* calcVelocity on its own *)

\* the pointer sample the displacement starts from
CalcStart == [x |-> 5000, y |-> 4000]

\* displacements of the pointer in tenths of a CSS pixel: none, along an axis,
\* and along 3-4-5 triangles, so that speeds and quotients are whole numbers
CalcBy ==
    { [x |-> 0, y |-> 0] }
      \cup { [x |-> k * a, y |-> k * b] :
               k \in {1, 2, 3, 50, 100},
               a \in {-3, 3}, b \in {-4, 4} }
      \cup { [x |-> k * b, y |-> k * a] :
               k \in {1, 2, 3, 50, 100},
               a \in {-3, 3}, b \in {-4, 4} }
      \cup { [x |-> a, y |-> 0] : a \in {-500, -5, 5, 500} }
      \cup { [x |-> 0, y |-> a] : a \in {-500, -5, 5, 500} }

\* milliseconds between the two samples
CalcDts == {10, 50}

\* [minSpeed, maxSpeed] pairs, minSpeed <= maxSpeed
CalcLimits ==
    { [min |-> 100, max |-> 2000], [min |-> 100, max |-> 2300],
      [min |-> 2000, max |-> 2000], [min |-> 500, max |-> 1000] }

CalcInit ==
    /\ game \in {NewGame(kind) : kind \in Kinds}
    /\ env = [ now |-> 0, gap |-> 0, size |-> 1, pending |-> 0,
               listening |-> FALSE, loading |-> FALSE,
               mounted |-> FALSE, destroyed |-> FALSE ]
    /\ obs = Observed("new")

Calc ==
    /\ obs.op = "new"
    /\ \E by \in CalcBy, dt \in CalcDts, lim \in CalcLimits :
         LET end == [x |-> CalcStart.x + by.x, y |-> CalcStart.y + by.y]
             throwPower == BallCfg(game.kind).throwPower
         IN  obs' = [ op  |-> "calcVelocity",
                      raw |-> rawVelocity(CalcStart, end, dt, throwPower),
                      min |-> lim.min,
                      max |-> lim.max,
                      out |-> calcVelocity(CalcStart, end, dt, throwPower, lim.min, lim.max) ]
    /\ UNCHANGED <<game, env>>

CalcNext == Calc

SpecCalc == CalcInit /\ [][CalcNext]_vars

----------------------------------------------------------------------------
(* Properties of the lifecycle and of the gesture *)

\* the simulation state of the ball a tick may or may not change
Motion(g) ==
    [ pos |-> g.ball.pos, vel |-> g.ball.vel, angle |-> g.ball.angle,
      angularVel |-> g.ball.angularVel ]

\* C1: a tick that starts while isDragging is true does not run updateBall and
\* changes neither the position nor the velocity nor the spin of the ball
DragFreezesBall ==
    [][ (obs'.op = "gameLoop" /\ game.isDragging)
        => (~obs'.ranUpdate /\ Motion(game') = Motion(game)) ]_vars

\* a frame has run in a playing game whose ball is being dragged
TickWhileDragging ==
    /\ obs.op = "gameLoop"
    /\ game.isDragging
    /\ game.isPlaying
    /\ game.dragStart.set

\* C2: after destroy() no gameLoop tick is scheduled or executed
NoFrameAfterDestroy ==
    env.destroyed => (env.pending = 0 /\ obs.op # "gameLoop")

\* C6: a tick that runs while the canvas or an image is null changes neither
\* the position, the velocity, the spin angle and the angular velocity of the
\* ball nor justBouncedFromConstraint
MissingDependencyNoOp ==
    [][ (obs'.op = "gameLoop" /\ (~game.canvas \/ ~game.images))
        => ( /\ Motion(game') = Motion(game)
             /\ game'.justBouncedFromConstraint = game.justBouncedFromConstraint ) ]_vars

\* C7: after reset() of a game whose init() has resolved the velocity of the
\* ball is (0, 0), the ball is where init() puts it (for one of the sizes the
\* canvas can have), scoreMessageTimer is 0 and wasInGoalArea is false
ResetRezeroes ==
    (obs.op = "reset" /\ game.images) =>
        /\ game.ball.vel = [x |-> 0, y |-> 0]
        /\ \E size \in 1..Len(CanvasSizes) :
             game.ball.pos = initResume(game, Canvas(size)).ball.pos
        /\ game.scoreMessageTimer = 0
        /\ ~game.wasInGoalArea

----------------------------------------------------------------------------
(* Scoring flights.  Two throws that end in the goal area, one for each    *)
(* game, with frames far enough apart and a clock long enough for the      *)
(* countdown of the score message to run out, while the component plays    *)
(* and pauses the game.                                                    *)

\* the gestures: where the pointer starts (from the left edge of the field
\* picture) and how far it moves in its last GestureGap
ScoreThrows ==
    { [kind |-> "basketball", from |-> [x |-> 2000, y |-> 3060], by |-> [x |-> 0, y |-> 3]],
      [kind |-> "football", from |-> [x |-> 2600, y |-> 4500], by |-> [x |-> -300, y |-> -400]] }

\* milliseconds between two animation frames
ScoreGaps == {48}

\* the clock of a scoring flight stops here
MaxScoreTime == 2400

ScoreInit ==
    /\ \E t \in ScoreThrows :
         /\ game = Thrown(t.kind, 1, [clientX |-> t.from.x, clientY |-> t.from.y], t.by)
         /\ env = [ now |-> 2 * GestureGap, gap |-> 0, size |-> 1, pending |-> 1,
                    listening |-> TRUE, loading |-> FALSE,
                    mounted |-> TRUE, destroyed |-> FALSE ]
    /\ obs = Observed("pointerup")

ScoreTick ==
    /\ env.pending > 0
    /\ \E gap \in ScoreGaps :
         /\ env.now + gap <= MaxScoreTime
         /\ \E f \in {gameLoop(game, cv, env.now + gap)} :
              /\ game' = f.g
              /\ obs' = ObservedFrame(f)
         /\ env' = [env EXCEPT !.now = @ + gap]

ScoreNext ==
    \/ ScoreTick
    \/ Play
    \/ Pause

SpecScore == ScoreInit /\ [][ScoreNext]_vars

\* C11: a tick that runs while the game is paused leaves scoreMessageTimer as
\* it is, only a tick that runs while the game is playing makes it smaller, and
\* it is never below 0
TimerRunsOnlyWhilePlaying ==
    [][ /\ (obs'.op = "gameLoop" /\ ~game.isPlaying)
             => game'.scoreMessageTimer = game.scoreMessageTimer
        /\ game'.scoreMessageTimer < game.scoreMessageTimer
             => (obs'.op = "gameLoop" /\ game.isPlaying)
        /\ game'.scoreMessageTimer >= 0 ]_vars

\* a frame has run in a paused game while the countdown was under way
PausedTickWithTimer ==
    /\ obs.op = "gameLoop"
    /\ ~game.isPlaying
    /\ game.scoreMessageTimer > 0
    /\ game.scoreMessageTimer < 2000

----------------------------------------------------------------------------
(* Properties of the resize *)

\* C12: the automatic resize of a tick changes no simulation state: a tick of
\* a paused game, which does nothing but the automatic resize and render(),
\* leaves the ball (position, velocity, spin, maxThrowSpeed), wasInGoalArea,
\* scoreMessageTimer and the pointer history as they are
ResizeKeepsSimulationState ==
    [][ (obs'.op = "gameLoop" /\ ~game.isPlaying)
        => ( /\ game'.ball = game.ball
             /\ game'.wasInGoalArea = game.wasInGoalArea
             /\ game'.scoreMessageTimer = game.scoreMessageTimer
             /\ game'.pointerHistory = game.pointerHistory ) ]_vars

----------------------------------------------------------------------------
(* calcImageRect on its own, with the rounding of its arithmetic.  A number *)
(* of the code is a binary floating point number: here [m |-> m, e |-> e]   *)
(* is m * 2^e with a significand m of MantBits bits, and every division and *)
(* multiplication rounds its exact result to the nearest such number, ties  *)
(* to even, as the doubles of the code do with 53 bits.                     *)

\* bits of the significand
MantBits == 8

\* n / d rounded to the nearest integer, ties to even
RoundHalfEven(n, d) ==
    LET q == n \div d
        r == n % d
    IN  IF 2 * r > d \/ (2 * r = d /\ q % 2 = 1) THEN q + 1 ELSE q

\* the floating point number nearest to (n / d) * 2^e, for n, d > 0
RECURSIVE FlRound(_, _, _)
FlRound(n, d, e) ==
    IF n >= d * 2^MantBits THEN FlRound(n, 2 * d, e + 1)
    ELSE IF n < d * 2^(MantBits - 1) THEN FlRound(2 * n, d, e - 1)
    ELSE IF RoundHalfEven(n, d) = 2^MantBits
         THEN [m |-> 2^(MantBits - 1), e |-> e + 1]
         ELSE [m |-> RoundHalfEven(n, d), e |-> e]

\* a / b for two whole numbers
FlDiv(a, b) == FlRound(a, b, 0)

\* i * f for a whole number i and a floating point number f
FlMul(i, f) == FlRound(i * f.m, 1, f.e)

\* f <= g, f and g floating point numbers
FlLeq(f, g) ==
    IF f.e >= g.e THEN f.m * 2^(f.e - g.e) <= g.m ELSE f.m <= g.m * 2^(g.e - f.e)

FlMax(f, g) == IF FlLeq(f, g) THEN g ELSE f

FlMin(f, g) == IF FlLeq(f, g) THEN f ELSE g

\* a whole number as a floating point number (its significand is not cut)
FlInt(i) == [m |-> i, e |-> 0]

\* the sign of f * p - g * q, computed exactly, for floating point numbers f, g
\* and whole numbers p, q > 0
FlCmp(f, p, g, q) ==
    LET e  == Min(f.e, g.e)
        fp == f.m * 2^(f.e - e) * p
        gq == g.m * 2^(g.e - e) * q
    IN  IF fp < gq THEN -1 ELSE IF fp > gq THEN 1 ELSE 0

\* calcImageRectFl with the larger quotient for contain and the smaller for cover
calcImageRectFlSwapped(imgW, imgH, rectW, rectH, mode) ==
    [ drawW |-> FlMul(imgW, IF mode = "cover"
                            THEN FlMin(FlDiv(rectW, imgW), FlDiv(rectH, imgH))
                            ELSE FlMax(FlDiv(rectW, imgW), FlDiv(rectH, imgH))),
      drawH |-> FlMul(imgH, IF mode = "cover"
                            THEN FlMin(FlDiv(rectW, imgW), FlDiv(rectH, imgH))
                            ELSE FlMax(FlDiv(rectW, imgW), FlDiv(rectH, imgH))) ]

\* calcImageRect as far as drawW and drawH: scale, imgW * scale, imgH * scale
calcImageRectFl(imgW, imgH, rectW, rectH, mode) ==
    [ drawW |-> FlMul(imgW, IF mode = "cover"
                            THEN FlMax(FlDiv(rectW, imgW), FlDiv(rectH, imgH))
                            ELSE FlMin(FlDiv(rectW, imgW), FlDiv(rectH, imgH))),
      drawH |-> FlMul(imgH, IF mode = "cover"
                            THEN FlMax(FlDiv(rectW, imgW), FlDiv(rectH, imgH))
                            ELSE FlMin(FlDiv(rectW, imgW), FlDiv(rectH, imgH))) ]

\* widths and heights of images and of containers, in pixels
ImgDims == {3, 7, 100, 125}

RectDims == {60, 61, 80, 100}

RectInit ==
    /\ game \in {NewGame(kind) : kind \in Kinds}
    /\ env = [ now |-> 0, gap |-> 0, size |-> 1, pending |-> 0,
               listening |-> FALSE, loading |-> FALSE,
               mounted |-> FALSE, destroyed |-> FALSE ]
    /\ obs = Observed("new")

Rect ==
    /\ obs.op = "new"
    /\ \E imgW \in ImgDims, imgH \in ImgDims, rectW \in RectDims, rectH \in RectDims,
          mode \in {"cover", "contain"} :
         obs' = [ op |-> "calcImageRect", imgW |-> imgW, imgH |-> imgH,
                  rectW |-> rectW, rectH |-> rectH, mode |-> mode,
                  out |-> calcImageRectFl(imgW, imgH, rectW, rectH, mode) ]
    /\ UNCHANGED <<game, env>>

RectNext == Rect

SpecRect == RectInit /\ [][RectNext]_vars

\* C13 as stated: cover gives drawW >= containerW and drawH >= containerH,
\* contain gives drawW <= containerW and drawH <= containerH, and both keep
\* drawW / drawH = imgW / imgH
CoverFillsContainFits ==
    obs.op = "calcImageRect" =>
        /\ obs.mode = "cover" => /\ FlCmp(obs.out.drawW, 1, FlInt(obs.rectW), 1) >= 0
                                 /\ FlCmp(obs.out.drawH, 1, FlInt(obs.rectH), 1) >= 0
        /\ obs.mode = "contain" => /\ FlCmp(obs.out.drawW, 1, FlInt(obs.rectW), 1) <= 0
                                   /\ FlCmp(obs.out.drawH, 1, FlInt(obs.rectH), 1) <= 0
        /\ FlCmp(obs.out.drawW, obs.imgH, obs.out.drawH, obs.imgW) = 0

\* C13: up to the rounding of the arithmetic (a relative error of 2^-(MantBits-1)
\* for the sizes, of 2^-(MantBits-2) for the aspect ratio), cover gives
\* drawW >= containerW and drawH >= containerH, contain gives
\* drawW <= containerW and drawH <= containerH, and both keep
\* drawW / drawH = imgW / imgH
CoverFillsContainFitsRounded ==
    obs.op = "calcImageRect" =>
        /\ obs.mode = "cover" =>
             /\ FlCmp(obs.out.drawW, 2^(MantBits - 1), FlInt(obs.rectW), 2^(MantBits - 1) - 1) >= 0
             /\ FlCmp(obs.out.drawH, 2^(MantBits - 1), FlInt(obs.rectH), 2^(MantBits - 1) - 1) >= 0
        /\ obs.mode = "contain" =>
             /\ FlCmp(obs.out.drawW, 2^(MantBits - 1), FlInt(obs.rectW), 2^(MantBits - 1) + 1) <= 0
             /\ FlCmp(obs.out.drawH, 2^(MantBits - 1), FlInt(obs.rectH), 2^(MantBits - 1) + 1) <= 0
        /\ FlCmp(obs.out.drawW, obs.imgH * 2^(MantBits - 2),
                 obs.out.drawH, obs.imgW * (2^(MantBits - 2) + 1)) <= 0
        /\ FlCmp(obs.out.drawW, obs.imgH * 2^(MantBits - 2),
                 obs.out.drawH, obs.imgW * (2^(MantBits - 2) - 1)) >= 0

\* calcImageRect has fitted an image to a container of another aspect ratio:
\* in cover mode one side is the side of the container and the other is
\* longer, in contain mode the other is shorter
FittedOtherAspect ==
    /\ obs.op = "calcImageRect"
    /\ obs.imgW * obs.rectH # obs.imgH * obs.rectW
    /\ \/ /\ obs.mode = "cover"
          /\ FlCmp(obs.out.drawW, 1, FlInt(obs.rectW), 1) = 0
          /\ FlCmp(obs.out.drawH, 1, FlInt(obs.rectH), 1) > 0
       \/ /\ obs.mode = "contain"
          /\ FlCmp(obs.out.drawW, 1, FlInt(obs.rectW), 1) < 0
          /\ FlCmp(obs.out.drawH, 1, FlInt(obs.rectH), 1) = 0

----------------------------------------------------------------------------
(* Drags.  A mounted, loaded, playing instance whose ball the pointer puts *)
(* down in the goal area, below the ground line or in mid field, while the *)
(* frames run.                                                             *)

\* pointer positions in tenths of a CSS pixel: inside the rim of the basket
\* (above the goal mouth), inside the goal mouth (below the rim), two
\* positions below both ground lines, one inside the backboard rectangle of
\* the basket and one less than a ball radius to the right of it
DragPoints ==
    { [clientX |-> 2000, clientY |-> 3200], [clientX |-> 2000, clientY |-> 3700],
      [clientX |-> 5000, clientY |-> 7000], [clientX |-> 5300, clientY |-> 7400],
      [clientX |-> 1000, clientY |-> 2500], [clientX |-> 1600, clientY |-> 2500] }

\* the pointer moves at most this far, on each axis, between two events
MaxPointerStep == 600

\* where the pointer was at the event before
LastPointer(g) ==
    IF Len(g.pointerHistory) > 0 THEN g.pointerHistory[Len(g.pointerHistory)]
    ELSE g.dragStart

\* milliseconds between two events
DragGaps == {30}

\* the clock of a drag stops here
MaxDragTime == 150

DragInit ==
    /\ \E kind \in Kinds : game = Ready(kind, 1)
    /\ env = [ now |-> 0, gap |-> 0, size |-> 1, pending |-> 1,
               listening |-> TRUE, loading |-> FALSE,
               mounted |-> TRUE, destroyed |-> FALSE ]
    /\ obs = Observed("start")

DragDown ==
    /\ env.listening
    /\ ~game.isDragging
    /\ \E e \in DragPoints : game' = handlePointerDown(game, cv, e, env.now)
    /\ UNCHANGED env
    /\ obs' = Observed("pointerdown")

DragMove ==
    /\ env.listening
    /\ game.isDragging
    /\ \E gap \in DragGaps, e \in DragPoints :
         /\ env.now + gap <= MaxDragTime
         /\ Abs(e.clientX - LastPointer(game).x) <= MaxPointerStep
         /\ Abs(e.clientY - LastPointer(game).y) <= MaxPointerStep
         /\ game' = handlePointerMove(game, cv, e, env.now + gap)
         /\ env' = [env EXCEPT !.now = @ + gap]
    /\ obs' = Observed("pointermove")

DragUp ==
    /\ env.listening
    /\ game.isDragging
    /\ game' = handlePointerUp(game)
    /\ UNCHANGED env
    /\ obs' = Observed("pointerup")

DragTick ==
    /\ env.pending > 0
    /\ \E gap \in DragGaps :
         /\ env.now + gap <= MaxDragTime
         /\ \E f \in {gameLoop(game, cv, env.now + gap)} :
              /\ game' = f.g
              /\ obs' = ObservedFrame(f)
         /\ env' = [env EXCEPT !.now = @ + gap]

DragNext ==
    \/ DragDown
    \/ DragMove
    \/ DragUp
    \/ DragTick

SpecDrag == DragInit /\ [][DragNext]_vars

\* whether the centre of the ball is strictly inside the goal area: the rim
\* rectangle of the basket, the goal rectangle of the football goal
BallInGoalArea(g, c) ==
    LET fieldRect == FieldRect(g, c)
        x == fieldRect.offsetX + Scale(fieldRect.drawW, g.ball.pos.x, U)
        y == fieldRect.offsetY + Scale(fieldRect.drawH, g.ball.pos.y, U)
        r == IF g.kind = "basketball"
             THEN getRimRect(BasketRect(fieldRect), BasketballBasket.rectConstraints[2].coords,
                             BasketballBasket.rectConstraints[3].coords)
             ELSE GoalRect(fieldRect)
    IN  x > r.x /\ x < r.x + r.w /\ y > r.y /\ y < r.y + r.h

\* C14: after every tick that runs while the game is playing, a tick that runs
\* while the ball is dragged included, wasInGoalArea tells whether the centre
\* of the ball is strictly inside the goal area
GoalFlagRefreshedEveryTick ==
    [][ (obs'.op = "gameLoop" /\ game.isPlaying)
        => (game'.wasInGoalArea = BallInGoalArea(game', cv)) ]_vars

\* whether a throw of g launches the ball: two samples of the pointer lie
\* apart in time
launches(g) ==
    /\ g.canvas
    /\ g.dragStart.set
    /\ Len(g.pointerHistory) >= 2
    /\ g.pointerHistory[Len(g.pointerHistory)].time
         > g.pointerHistory[PrevIndex(g.pointerHistory, Len(g.pointerHistory) - 1)].time

\* the velocity calcVelocity gives a throw of g that launches
throwVelocity(g) ==
    LET h    == g.pointerHistory
        last == h[Len(h)]
        prev == h[PrevIndex(h, Len(h) - 1)]
    IN  calcVelocity([x |-> prev.x, y |-> prev.y], [x |-> last.x, y |-> last.y],
                     last.time - prev.time, BallCfg(g.kind).throwPower,
                     BallCfg(g.kind).minThrowSpeed, g.ball.maxThrowSpeed)

\* how far the lower edge of the ball is below the ground line
below(g) == (g.ball.pos.y + BallCfg(g.kind).radius) - FieldCfg(g.kind).groundY

\* a pointerup that launches a ball whose lower edge is below the ground line
LaunchBelowGround ==
    /\ obs'.op = "pointerup"
    /\ game.isDragging
    /\ launches(game)
    /\ below(game) > 0

\* C15: a throw that launches a ball whose lower edge is below the ground line
\* changes the launch vel.y upwards (vel.y decreases, y pointing down) by five
\* times the depth, sets pos.y to groundY - radius and sets
\* justBouncedFromConstraint
SnapImpulseUpward ==
    [][ LaunchBelowGround
        => /\ game'.ball.vel.y = throwVelocity(game).vy - Scale(below(game) * 5, V, U)
           /\ game'.ball.pos.y = FieldCfg(game.kind).groundY - BallCfg(game.kind).radius
           /\ game'.justBouncedFromConstraint ]_vars

\* whether a frame bounced the ball off the ground
GroundBounce(bounces) == \E i \in 1..Len(bounces) : bounces[i].kind = "ground"

\* the lower edge of the ball of g after dt of gravity and movement, before any
\* bounce
ballBottom(g, dt) ==
    integrate([g EXCEPT !.justBouncedFromConstraint = TRUE], dt).g.ball.pos.y
        + BallCfg(g.kind).radius

\* C16: justBouncedFromConstraint is set by nothing but the snap of a throw
\* below the ground line; the first updateBall after it skips the ground bounce
\* and clears the flag; an updateBall that finds the flag clear bounces the
\* ball whenever its lower edge passed the ground line
GuardSuppressesOnce ==
    [][ /\ (game'.justBouncedFromConstraint /\ ~game.justBouncedFromConstraint)
             => LaunchBelowGround
        /\ (obs'.op = "gameLoop" /\ obs'.ranUpdate /\ game.justBouncedFromConstraint)
             => (~game'.justBouncedFromConstraint /\ ~GroundBounce(obs'.bounces))
        /\ (obs'.op = "gameLoop" /\ obs'.ranUpdate /\ ~game.justBouncedFromConstraint)
             => /\ ~game'.justBouncedFromConstraint
                /\ GroundBounce(obs'.bounces)
                     <=> ballBottom(game, obs'.dt) > FieldCfg(game.kind).groundY ]_vars

\* an updateBall has just let the ball sink below the ground line without a
\* bounce and cleared the flag
GuardSkippedBounce ==
    /\ obs.op = "gameLoop"
    /\ obs.ranUpdate
    /\ ~GroundBounce(obs.bounces)
    /\ ~game.justBouncedFromConstraint
    /\ game.ball.pos.y + BallCfg(game.kind).radius > FieldCfg(game.kind).groundY

\* C17: pause() stops the loop: a frame that runs after pause(), before any
\* start() or play(), requests no further frame
PauseStopsLoop ==
    [][ (obs'.op = "gameLoop" /\ ~game.isPlaying)
        => (env'.pending = 0 /\ ~game'.animationFrameId) ]_vars

\* C18: between two handlers, a ball that is being dragged has the velocity
\* (0, 0); every pointerdown and every touchstart zeroes the velocity and
\* empties the pointer history
DraggingMeansAtRest ==
    /\ game.isDragging => game.ball.vel = [x |-> 0, y |-> 0]
    /\ obs.op \in {"pointerdown", "touchstart"}
         => (game.isDragging /\ game.ball.vel = [x |-> 0, y |-> 0]
                             /\ game.pointerHistory = << >>)

\* tenths of a CSS pixel the fixed-point arithmetic may be off by
PushTolerance == 3

\* the distance, in pixels, from the centre of the ball of g to the closest
\* point of the i-th rectangle of the basket
distToRect(g, c, i) ==
    LET fieldRect == FieldRect(g, c)
        r  == constraintRect(BasketRect(fieldRect), BasketballBasket.rectConstraints[i].coords)
        x  == fieldRect.offsetX + Scale(fieldRect.drawW, g.ball.pos.x, U)
        y  == fieldRect.offsetY + Scale(fieldRect.drawH, g.ball.pos.y, U)
        closest == closestPointOnRect(x, y, r.left, r.top, r.right - r.left, r.bottom - r.top)
    IN  Sqrt((x - closest.x) * (x - closest.x) + (y - closest.y) * (y - closest.y))

\* the rectangles of the basket a frame resolved a collision with
RectHits == { obs.hits[i].index : i \in { j \in 1..Len(obs.hits) : obs.hits[j].obstacle = "rect" } }

\* C19: after the collision with a rectangle is resolved, the centre of the
\* ball is a ball radius away from the closest point of the rectangle, also
\* when the centre started inside the rectangle
RectPushesBallOut ==
    (obs.op = "gameLoop" /\ game.kind = "basketball")
      => \A i \in RectHits :
           Abs(distToRect(game, cv, i)
                 - Scale(BallCfg(game.kind).radius, FieldRect(game, cv).drawW, U))
             <= PushTolerance

----------------------------------------------------------------------------
(* The net.  The ball of a football game, put down by the pointer around   *)
(* the upper end of the net line and released, meets the net step of       *)
(* updateBall.                                                             *)

\* pointer positions around the upper end of the net line, in tenths of a
\* CSS pixel
NetXs == { 600 + 100 * i : i \in 0..9 }

NetYs == { 3000 + 50 * i : i \in 0..12 }

NetInit ==
    /\ game = Ready("football", 1)
    /\ env = [ now |-> 0, gap |-> 0, size |-> 1, pending |-> 1,
               listening |-> TRUE, loading |-> FALSE,
               mounted |-> TRUE, destroyed |-> FALSE ]
    /\ obs = Observed("start")

\* the net line of g on the canvas c
netLineOf(g, c) == NetLine(GoalRect(FieldRect(g, c)))

\* the ball radius of g in pixels
radiusPx(g, c) == Scale(BallCfg(g.kind).radius, FieldRect(g, c).drawW, U)

\* the step updateBall hands its net collision: the instance with the pixel
\* position of the ball
pixelStep(g, fieldRect) ==
    [ Step(g, << >>) EXCEPT
        !.ballXpx = fieldRect.offsetX + Scale(fieldRect.drawW, g.ball.pos.x, U),
        !.ballYpx = fieldRect.offsetY + Scale(fieldRect.drawH, g.ball.pos.y, U) ]

\* the pointer puts the ball down and lets go; updateBall runs its net step
NetStep ==
    /\ obs.op = "start"
    /\ \E x \in NetXs, y \in NetYs :
         \E g \in { handlePointerUp(handlePointerDown(game, cv, [clientX |-> x, clientY |-> y],
                                                      env.now)) } :
           \E s \in { pixelStep(g, FieldRect(g, cv)) } :
             \E out \in { net(s, FieldRect(g, cv), radiusPx(g, cv), netLineOf(g, cv)) } :
               /\ game' = out.g
               /\ obs' = [ op |-> "net", hit |-> Len(out.hits) > 0,
                           before |-> projectPointOnLineSegment(
                                        s.ballXpx, s.ballYpx, netLineOf(g, cv).x1,
                                        netLineOf(g, cv).y1, netLineOf(g, cv).x2,
                                        netLineOf(g, cv).y2),
                           after  |-> projectPointOnLineSegment(
                                        out.ballXpx, out.ballYpx, netLineOf(g, cv).x1,
                                        netLineOf(g, cv).y1, netLineOf(g, cv).x2,
                                        netLineOf(g, cv).y2) ]
    /\ UNCHANGED env

NetNext == NetStep

SpecNet == NetInit /\ [][NetNext]_vars

\* C20: after the collision with the net line is resolved the ball is at
\* least its radius away from the segment, also when the closest point of the
\* segment is one of its ends
NetPushesBallOut ==
    (obs.op = "net" /\ obs.hit)
      => obs.after.dist >= radiusPx(game, cv) - PushTolerance

----------------------------------------------------------------------------
(* transformPoint and transformNormal, applied one after the other to a    *)
(* vector at an angle.                                                     *)

\* angles as cosine and sine in thousandths; the pairs are exact
Angles ==
    { [cos |-> 1000, sin |-> 0], [cos |-> 800, sin |-> 600], [cos |-> 600, sin |-> 800],
      [cos |-> 0, sin |-> 1000], [cos |-> 600, sin |-> -800], [cos |-> -800, sin |-> 600] }

\* the components of the vectors, in thousandths
Components == { -2000, -1000, 0, 1000, 2000 }

TransformInit ==
    /\ game \in {NewGame(kind) : kind \in Kinds}
    /\ env = [ now |-> 0, gap |-> 0, size |-> 1, pending |-> 0,
               listening |-> FALSE, loading |-> FALSE,
               mounted |-> FALSE, destroyed |-> FALSE ]
    /\ obs = Observed("new")

\* a vector goes into the frame of the bar and its image comes back as a
\* normal
Transform ==
    /\ obs.op = "new"
    /\ \E a \in Angles, x \in Components, y \in Components :
         \E local \in { transformPoint(x, y, 0, 0, a) } :
           obs' = [ op |-> "transform", angle |-> a, v |-> [x |-> x, y |-> y],
                    local |-> local,
                    back |-> transformNormal(local.x, local.y, a) ]
    /\ UNCHANGED <<game, env>>

SpecTransform == TransformInit /\ [][Transform]_vars

\* C21: transformNormal undoes the rotation of transformPoint: a vector taken
\* into the frame of the bar by transformPoint (origin 0) comes back as itself
NormalUndoesPoint ==
    obs.op = "transform" => obs.back = obs.v

\* whether the ball of g moves in the direction that scores: down into the
\* basket, left into the goal
ScoringDirection(g) ==
    IF g.kind = "basketball" THEN g.ball.vel.y > 0 ELSE g.ball.vel.x < 0

\* C22: a tick scores only with the velocity in the scoring direction; an
\* entry in the wrong direction latches wasInGoalArea all the same, so a ball
\* that was inside the goal area before a tick does not score in it, whatever
\* its direction has become
WrongDirectionEntryLatches ==
    [][ /\ (obs'.op = "gameLoop" /\ obs'.scored)
             => (ScoringDirection(game') /\ ~BallInGoalArea(game, cv))
        /\ (obs'.op = "gameLoop" /\ obs'.completed)
             => game'.wasInGoalArea = obs'.inGoalArea ]_vars

----------------------------------------------------------------------------
(* Gestures.  One drag of a steadily moving pointer: a pointerdown, moves  *)
(* that come in the rhythm of the gesture or after a long stall, and the   *)
(* pointerup.                                                              *)

\* where a gesture starts, in tenths of a CSS pixel: mid field, and below both
\* ground lines
GestureStarts == { [clientX |-> 5000, clientY |-> 2000], [clientX |-> 5000, clientY |-> 7000] }

\* what the pointer moves between two samples
GestureDrift == [x |-> 30, y |-> 20]

\* milliseconds between two samples of a gesture: its rhythm
GestureGaps == {0, 20, 60}

\* milliseconds of a stall of the pointer
StallGap == 120

\* the samples of a gesture
MaxMoves == 17

\* the clock of a gesture stops here
MaxGestureTime == 460

GestureInit ==
    /\ \E kind \in Kinds : game = Ready(kind, 1)
    /\ \E gap \in GestureGaps :
         env = [ now |-> 0, gap |-> gap, size |-> 1, pending |-> 1,
                 listening |-> TRUE, loading |-> FALSE,
                 mounted |-> TRUE, destroyed |-> FALSE, moves |-> 0 ]
    /\ obs = Observed("start")

GestureDown ==
    /\ obs.op = "start"
    /\ \E e \in GestureStarts : game' = handlePointerDown(game, cv, e, env.now)
    /\ UNCHANGED env
    /\ obs' = Observed("pointerdown")

GestureMove ==
    /\ game.isDragging
    /\ env.moves < MaxMoves
    /\ \E gap \in {env.gap, StallGap} :
         /\ env.now + gap <= MaxGestureTime
         /\ game' = handlePointerMove(game, cv,
                        [ clientX |-> LastPointer(game).x + GestureDrift.x,
                          clientY |-> LastPointer(game).y + GestureDrift.y ],
                        env.now + gap)
         /\ env' = [env EXCEPT !.now = @ + gap, !.moves = @ + 1]
    /\ obs' = Observed("pointermove")

GestureUp ==
    /\ game.isDragging
    /\ game' = handlePointerUp(game)
    /\ UNCHANGED env
    /\ obs' = Observed("pointerup")

\* the end of the gesture is delivered once more: pointerleave after
\* pointerup, or touchend / touchcancel with the lifted touch
GestureUpAgain ==
    /\ obs.op = "pointerup"
    /\ \E touch \in BOOLEAN :
         game' = IF touch
                 THEN handleTouchEnd(game, << [clientX |-> 0, clientY |-> 0] >>)
                 ELSE handlePointerUp(game)
    /\ UNCHANGED env
    /\ obs' = Observed("pointerleave")

GestureNext ==
    \/ GestureDown
    \/ GestureMove
    \/ GestureUp
    \/ GestureUpAgain

SpecGesture == GestureInit /\ [][GestureNext]_vars

\* C23: a release with fewer than two samples in the pointer history, or with
\* a pair of samples that are not apart in time, leaves the velocity (0, 0),
\* the angular velocity and justBouncedFromConstraint as they were, and
\* clears dragStart and the pointer history
NoTimingNoImpulse ==
    [][ (obs'.op = "pointerup" /\ game.isDragging /\ ~launches(game))
        => /\ game'.ball.vel = [x |-> 0, y |-> 0]
           /\ game'.ball.angularVel = game.ball.angularVel
           /\ game'.justBouncedFromConstraint = game.justBouncedFromConstraint
           /\ game'.dragStart = NoDragStart
           /\ game'.pointerHistory = << >> ]_vars

\* the samples of h before the last one that are more than 50 ms older than it
OlderSamples(h) == { i \in 1..(Len(h) - 1) : h[Len(h)].time - h[i].time > 50 }

\* the start sample of a throw as the rule words it: the most recent of the
\* older samples, the oldest sample of all when there is none
StartSample(h) ==
    IF OlderSamples(h) = {} THEN h[1]
    ELSE h[CHOOSE i \in OlderSamples(h) : \A j \in OlderSamples(h) : j <= i]

\* the velocity of a throw from StartSample to the last sample
ruleVelocity(g) ==
    LET h == g.pointerHistory
    IN  calcVelocity([x |-> StartSample(h).x, y |-> StartSample(h).y],
                     [x |-> h[Len(h)].x, y |-> h[Len(h)].y],
                     h[Len(h)].time - StartSample(h).time, BallCfg(g.kind).throwPower,
                     BallCfg(g.kind).minThrowSpeed, g.ball.maxThrowSpeed)

IsSuffix(h, k) ==
    /\ Len(h) <= Len(k)
    /\ \A i \in 1..Len(h) : h[i] = k[Len(k) - Len(h) + i]

\* C25: after every move of a drag the pointer history holds at most 15
\* samples, in the order they came in, the last one being the sample of this
\* move; it holds one sample, or its oldest sample is at most 200 ms older
\* than its newest
HistoryBoundedAndRecent ==
    [][ (obs'.op = "pointermove" /\ game.isDragging)
        => LET h == game'.pointerHistory
           IN  /\ Len(h) \in 1..15
               /\ h[Len(h)].time = env'.now
               /\ IsSuffix(SubSeq(h, 1, Len(h) - 1), game.pointerHistory)
               /\ \A i \in 1..(Len(h) - 1) : h[i].time <= h[i + 1].time
               /\ (Len(h) = 1 \/ h[Len(h)].time - h[1].time <= 200) ]_vars

\* a move has just evicted a sample from a full history
HistoryFull ==
    /\ obs.op = "pointermove"
    /\ Len(game.pointerHistory) = 15
    /\ env.moves >= 16

\* C26: between two handlers, an instance that is not dragging has an empty
\* pointer history, whatever pointer and touch events came, touch events with
\* empty touch lists included
HistoryOnlyWhileDragging ==
    ~game.isDragging => game.pointerHistory = << >>

\* C27: the dt a frame hands to updateBall and to the countdown of the score
\* message is between 0 and 50 ms, and 0 in the first frame after start()
FrameStepClamped ==
    [][ obs'.op = "gameLoop"
        => /\ obs'.dt \in 0..50
           /\ game.lastTimestamp = 0 => obs'.dt = 0 ]_vars

\* a frame that came more than 50 ms after the one before has run updateBall
\* with the clamped dt
LateFrameClamped ==
    /\ obs.op = "gameLoop"
    /\ obs.ranUpdate
    /\ obs.dt = 50

\* C28: at the end of every tick that ran updateBall the lower edge of the
\* ball is at or above the ground line
BallStaysAboveGround ==
    (obs.op = "gameLoop" /\ obs.ranUpdate)
      => game.ball.pos.y + BallCfg(game.kind).radius <= FieldCfg(game.kind).groundY

----------------------------------------------------------------------------
(* The loop.  Beside what the component does, start() is called at any     *)
(* time on the instance.                                                   *)

Start ==
    /\ env.mounted
    /\ game' = start(game)
    /\ env' = [env EXCEPT !.pending = IF game.animationFrameId = FALSE THEN @ + 1 ELSE @]
    /\ obs' = Observed("start")

SpecLoop == Init /\ [][Next \/ Start]_vars

\* C29: at most one animation frame is requested and not yet run or
\* cancelled, whatever start(), play(), pause(), reset(), resize(), destroy()
\* and frames came before
AtMostOneFrame ==
    env.pending <= 1

\* start() has been called while the loop was running
StartedWhileRunning ==
    /\ obs.op = "start"
    /\ ~env.loading
    /\ ~env.destroyed
    /\ env.now > 0
    /\ env.pending = 1

\* C30: a gesture throws at most once: only the release of a drag sets the
\* velocity outside a drag start, every release ends the drag, and a release
\* delivered once more changes nothing
OneThrowPerGesture ==
    [][ /\ (game'.ball.vel # game.ball.vel /\ obs'.op # "pointerdown")
             => (obs'.op = "pointerup" /\ game.isDragging /\ game.dragStart.set)
        /\ obs'.op \in {"pointerup", "pointerleave"}
             => (~game'.isDragging /\ ~game'.dragStart.set)
        /\ obs'.op = "pointerleave" => game' = game ]_vars

\* the end of a gesture that threw the ball has been delivered once more
ReleasedTwice ==
    /\ obs.op = "pointerleave"
    /\ game.ball.vel # [x |-> 0, y |-> 0]

=============================================================================
